---- MODULE Spec2Model ----
(***************************************************************************)
(* pass-tui: the view engine (store index, filter + expand -> rows), the   *)
(* preview workflow and the driving loop, as a state machine.              *)
(*                                                                         *)
(* Conventions.  A character is a one-character string, a name (one path   *)
(* component, a filter, a buffer) is a sequence of characters, a path is a *)
(* sequence of names, a store key is a sequence of characters in which the *)
(* names are joined by "/".  Positions in `entries` are 1-based here       *)
(* (row.idx = Rust idx + 1); `cursor` keeps the code's 0-based value.      *)
(***************************************************************************)
EXTENDS Naturals, Sequences, FiniteSets, TLC

VARIABLES
    fsDirs,           \* directories on disk below the store root (paths)
    fsFiles,          \* regular files on disk below the store root (paths)
    fsRoot,           \* TRUE while the store root directory exists
    cwd,              \* App.cwd
    entries,          \* App.entries
    rows,             \* App.rows
    expanded,         \* App.expanded
    cursor,           \* App.cursor
    quit,             \* App.quit
    modal,            \* App.modal
    pending,          \* App.pending
    pending_preview,  \* App.pending_preview
    filter,           \* App.filter
    filter_mode,      \* App.filter_mode
    filter_input,     \* App.filter_input
    status,           \* App.status
    preview_key,      \* App.preview_key
    preview_text,     \* App.preview_text
    preview_is_error, \* App.preview_is_error
    preview_mode,     \* App.preview_mode
    pc,               \* position of run() in its loop
    needs_redraw,     \* run()'s local needs_redraw
    calls,            \* collaborator calls made by the latest step, in order
    faults,           \* collaborator failures so far (bounded by MaxFaults)
    mutations         \* queued actions run so far (bounded by MaxMutations)

vars == <<fsDirs, fsFiles, fsRoot, cwd, entries, rows, expanded, cursor, quit,
          modal, pending, pending_preview, filter, filter_mode, filter_input,
          status, preview_key, preview_text, preview_is_error, preview_mode,
          pc, needs_redraw, calls, faults, mutations>>

(***************************************************************************)
(* Bounds of the model.                                                    *)
(***************************************************************************)
MaxFilterLen == 1

MaxBufferLen == 1

MaxFaults == 1

MaxMutations == 1

None == [none |-> TRUE]

Some(v) == [some |-> v]

IsSome(o) == o # None

(***************************************************************************)
(* Characters, names and paths.                                            *)
(***************************************************************************)
\* Characters in ascending byte order (OsStr comparison is bytewise).
CharOrder ==
    <<" ", ".", "/", "N", "a", "b", "e", "g", "i", "n", "o", "p", "t", "w", "x",
      "0xFE", "0xFF">>

\* Bytes that occur in no UTF-8 text (a file name may hold them).
InvalidBytes == {"0xFE", "0xFF"}

\* OsStr::to_string_lossy: every invalid byte becomes U+FFFD.
to_string_lossy(name) ==
    [i \in DOMAIN name |-> IF name[i] \in InvalidBytes THEN "U+FFFD" ELSE name[i]]

Ord(c) == CHOOSE i \in DOMAIN CharOrder : CharOrder[i] = c

\* s < t for two names, compared as byte strings.
RECURSIVE NameLess(_, _)
NameLess(s, t) ==
    IF t = <<>> THEN FALSE
    ELSE IF s = <<>> THEN TRUE
    ELSE IF Head(s) # Head(t) THEN Ord(Head(s)) < Ord(Head(t))
    ELSE NameLess(Tail(s), Tail(t))

\* Path::cmp: componentwise lexicographic, "Less" | "Equal" | "Greater".
RECURSIVE PathCmp(_, _)
PathCmp(p, q) ==
    IF p = <<>> /\ q = <<>> THEN "Equal"
    ELSE IF p = <<>> THEN "Less"
    ELSE IF q = <<>> THEN "Greater"
    ELSE IF Head(p) = Head(q) THEN PathCmp(Tail(p), Tail(q))
    ELSE IF NameLess(Head(p), Head(q)) THEN "Less" ELSE "Greater"

\* Path::starts_with: base is a componentwise prefix of p.
StartsWith(p, base) ==
    Len(base) <= Len(p) /\ SubSeq(p, 1, Len(base)) = base

\* Path::strip_prefix(base).unwrap_or(path)
StripPrefixOr(p, base) ==
    IF StartsWith(p, base) THEN SubSeq(p, Len(base) + 1, Len(p)) ELSE p

\* Path::parent: None for the empty path.
Parent(p) == IF p = <<>> THEN None ELSE Some(SubSeq(p, 1, Len(p) - 1))

\* Path::file_name: the last component, if any.
FileName(p) == IF p = <<>> THEN None ELSE Some(p[Len(p)])

\* Positions of "." in a name.
DotsOf(name) == {i \in 1..Len(name) : name[i] = "."}

LastDot(name) == CHOOSE i \in DotsOf(name) : \A j \in DotsOf(name) : j <= i

\* Does the name split into (stem, extension)?  Not when it has no dot, and
\* not when its only dot is the leading one (std's rsplit_file_at_dot).
HasExtension(name) == DotsOf(name) # {} /\ LastDot(name) > 1 /\ name # <<".", ".">>

\* Path::extension of a file name.
Extension(name) ==
    IF HasExtension(name)
    THEN Some(SubSeq(name, LastDot(name) + 1, Len(name)))
    ELSE None

\* Path::file_stem of a file name.
FileStem(name) ==
    IF HasExtension(name) THEN SubSeq(name, 1, LastDot(name) - 1) ELSE name

\* PathBuf::set_extension on the last component of a non-empty path.
SetExtension(p, ext) ==
    LET stem == FileStem(p[Len(p)])
        name == IF ext = <<>> THEN stem ELSE stem \o <<".">> \o ext
    IN  IF p = <<>> THEN p ELSE [p EXCEPT ![Len(p)] = name]

GpgExt == <<"g", "p", "g">>

GitName == <<".", "g", "i", "t">>

\* format!("{}.gpg", key) on the last component.
WithGpg(p) == [p EXCEPT ![Len(p)] = p[Len(p)] \o <<".">> \o GpgExt]

\* needle occurs in hay as a contiguous substring (str::contains).
Contains(hay, needle) ==
    \E i \in 0..Len(hay) :
        i + Len(needle) <= Len(hay) /\ SubSeq(hay, i + 1, i + Len(needle)) = needle

(***************************************************************************)
(* store.rs                                                                *)
(***************************************************************************)
\* path_to_store_key: for each component, a "/" when the key is not empty,
\* then the component as to_string_lossy gives it.
RECURSIVE path_to_store_key(_)
path_to_store_key(p) ==
    IF p = <<>> THEN <<>>
    ELSE LET key == path_to_store_key(SubSeq(p, 1, Len(p) - 1))
         IN  (IF key # <<>> THEN Append(key, "/") ELSE key)
             \o to_string_lossy(p[Len(p)])

Dir(p) == [path |-> p, kind |-> "Dir"]

Leaf(p) == [path |-> p, kind |-> "Entry"]

is_dir(e) == e.kind = "Dir"

store_key(e) == path_to_store_key(e.path)

\* file_name().and_then(to_str).unwrap_or(""): empty when the name is not UTF-8.
display_name(e) ==
    IF e.path = <<>> THEN <<>>
    ELSE IF \E i \in DOMAIN e.path[Len(e.path)] : e.path[Len(e.path)][i] \in InvalidBytes
    THEN <<>>
    ELSE e.path[Len(e.path)]

relative_entry_path(e) == IF e.kind = "Dir" THEN None ELSE Some(store_key(e))

\* The comparator of the index sort: directories first, then by path.
IndexCmp(a, b) ==
    IF a.kind = "Dir" /\ b.kind = "Entry" THEN "Less"
    ELSE IF a.kind = "Entry" /\ b.kind = "Dir" THEN "Greater"
    ELSE PathCmp(a.path, b.path)

\* entries.sort_by(IndexCmp): no two walked entries compare Equal, so the
\* sorted order is the one ascending sequence of the walked set.
RECURSIVE SortIndex(_)
SortIndex(S) ==
    IF S = {} THEN <<>>
    ELSE LET m == CHOOSE x \in S : \A y \in S : IndexCmp(y, x) # "Less"
         IN  <<m>> \o SortIndex(S \ {m})

\* A walk that takes every file for a content file.
WalkedEntriesAnyFile(dirs, files) ==
    {Dir(<<>>)}
    \cup {Dir(d) : d \in {x \in dirs : x[Len(x)] # GitName}}
    \cup {Leaf(SetExtension(f, <<>>)) : f \in {x \in files : x[Len(x)] # GitName}}

\* What the walk pushes: the synthetic root, every directory not named .git
\* (the walk still descends into it), every *.gpg file with the suffix cut.
WalkedEntries(dirs, files) ==
    {Dir(<<>>)}
    \cup {Dir(d) : d \in {x \in dirs : x[Len(x)] # GitName}}
    \cup {Leaf(SetExtension(f, <<>>)) :
            f \in {x \in files : x[Len(x)] # GitName
                                 /\ Extension(x[Len(x)]) = Some(GpgExt)}}

\* build_store_index: Err when the root is missing, else the sorted index.
build_store_index(root, dirs, files) ==
    IF ~root THEN [ok |-> FALSE, err |-> "Password store not found"]
    ELSE [ok |-> TRUE, val |-> SortIndex(WalkedEntries(dirs, files))]

(***************************************************************************)
(* app.rs: the view model.  Operators take the App as a record `a`.        *)
(***************************************************************************)
relative_to_cwd(a, path) == StripPrefixOr(path, a.cwd)

entry_key(a, idx) == path_to_store_key(relative_to_cwd(a, a.entries[idx].path))

\* A comparison that forgets the kind of its entries.
cmp_entries_by_path(a, left, right) ==
    PathCmp(a.entries[left].path, a.entries[right].path)

cmp_entries(a, left, right) ==
    LET left_entry == a.entries[left]
        right_entry == a.entries[right]
    IN  IF left_entry.kind = "Dir" /\ right_entry.kind = "Entry" THEN "Less"
        ELSE IF left_entry.kind = "Entry" /\ right_entry.kind = "Dir" THEN "Greater"
        ELSE PathCmp(left_entry.path, right_entry.path)

\* index_by_path.get(p) while the loop of apply_filter is at entry `upto`:
\* entries 1..upto have been inserted, a later insert of a path overwrites.
IndexByPathAt(a, upto, p) ==
    LET hits == {j \in 1..upto : a.entries[j].path = p}
    IN  IF hits = {} THEN None
        ELSE Some(CHOOSE j \in hits : \A k \in hits : k <= j)

\* The loop of add_visible_ancestors from `current`: the indices it inserts.
RECURSIVE AncestorWalk(_, _, _)
AncestorWalk(a, current, upto) ==
    IF Parent(current) = None THEN {}
    ELSE LET parent == Parent(current).some
             found == IndexByPathAt(a, upto, parent)
         IN  IF parent = a.cwd THEN {}
             ELSE (IF IsSome(found) THEN {found.some} ELSE {})
                  \cup AncestorWalk(a, parent, upto)

add_visible_ancestors(a, idx) == AncestorWalk(a, a.entries[idx].path, idx)

filter_active(a) == a.filter # <<>>

\* What one iteration of the first loop of apply_filter adds to `include`.
IncludeAt(a, idx) ==
    LET entry == a.entries[idx]
    IN  IF ~StartsWith(entry.path, a.cwd) \/ entry.path = a.cwd THEN {}
        ELSE IF filter_active(a) /\ ~Contains(display_name(entry), a.filter) THEN {}
        ELSE {idx} \cup (IF filter_active(a) THEN add_visible_ancestors(a, idx) ELSE {})

Include(a) == UNION {IncludeAt(a, idx) : idx \in DOMAIN a.entries}

\* relative.parent().map(path_to_store_key).unwrap_or_default()
ParentKey(a, idx) ==
    LET relative == relative_to_cwd(a, a.entries[idx].path)
    IN  IF Parent(relative) = None THEN <<>>
        ELSE path_to_store_key(Parent(relative).some)

\* siblings.sort_by(cmp_entries): no two entries of the index compare Equal.
RECURSIVE SortSiblings(_, _)
SortSiblings(a, S) ==
    IF S = {} THEN <<>>
    ELSE LET m == CHOOSE x \in S : \A y \in S : cmp_entries(a, y, x) # "Less"
         IN  <<m>> \o SortSiblings(a, S \ {m})

\* The `children` map of apply_filter: parent key -> sorted sibling list.
Children(a) ==
    LET grouped == {idx \in Include(a) :
                        relative_to_cwd(a, a.entries[idx].path) # <<>>}
        keys == {ParentKey(a, idx) : idx \in grouped}
    IN  [k \in keys |-> SortSiblings(a, {idx \in grouped : ParentKey(a, idx) = k})]

\* A build_rows that flags the first sibling instead of the last.
RECURSIVE BuildRowsFirstFlagged(_, _, _, _, _)
BuildRowsFirstFlagged(a, children, parent, branch_stack, pos) ==
    IF parent \notin DOMAIN children THEN <<>>
    ELSE IF pos > Len(children[parent]) THEN <<>>
    ELSE LET siblings == children[parent]
             idx == siblings[pos]
             stack == Append(branch_stack, pos = 1)
             key == entry_key(a, idx)
             below == IF a.entries[idx].kind = "Dir"
                         /\ (filter_active(a) \/ key \in a.expanded)
                      THEN BuildRowsFirstFlagged(a, children, key, stack, 1)
                      ELSE <<>>
         IN  <<[idx |-> idx, branches |-> stack]>> \o below
                   \o BuildRowsFirstFlagged(a, children, parent, branch_stack, pos + 1)

\* A build_rows that descends into every directory.
RECURSIVE BuildRowsAllOpen(_, _, _, _, _)
BuildRowsAllOpen(a, children, parent, branch_stack, pos) ==
    IF parent \notin DOMAIN children THEN <<>>
    ELSE IF pos > Len(children[parent]) THEN <<>>
    ELSE LET siblings == children[parent]
             idx == siblings[pos]
             stack == Append(branch_stack, pos = Len(siblings))
             below == IF a.entries[idx].kind = "Dir"
                      THEN BuildRowsAllOpen(a, children, entry_key(a, idx), stack, 1)
                      ELSE <<>>
         IN  <<[idx |-> idx, branches |-> stack]>> \o below
                   \o BuildRowsAllOpen(a, children, parent, branch_stack, pos + 1)

\* A build_rows that pushes a directory's row after the rows below it.
RECURSIVE BuildRowsChildrenFirst(_, _, _, _, _)
BuildRowsChildrenFirst(a, children, parent, branch_stack, pos) ==
    IF parent \notin DOMAIN children THEN <<>>
    ELSE IF pos > Len(children[parent]) THEN <<>>
    ELSE LET siblings == children[parent]
             idx == siblings[pos]
             stack == Append(branch_stack, pos = Len(siblings))
             key == entry_key(a, idx)
             below == IF a.entries[idx].kind = "Dir"
                         /\ (filter_active(a) \/ key \in a.expanded)
                      THEN BuildRowsChildrenFirst(a, children, key, stack, 1)
                      ELSE <<>>
         IN  below \o <<[idx |-> idx, branches |-> stack]>>
                   \o BuildRowsChildrenFirst(a, children, parent, branch_stack, pos + 1)

\* build_rows from sibling position `pos` (1-based) of children[parent].
RECURSIVE BuildRowsFrom(_, _, _, _, _)
BuildRowsFrom(a, children, parent, branch_stack, pos) ==
    IF parent \notin DOMAIN children THEN <<>>
    ELSE IF pos > Len(children[parent]) THEN <<>>
    ELSE LET siblings == children[parent]
             idx == siblings[pos]
             is_last == (pos = Len(siblings))
             stack == Append(branch_stack, is_last)
             row == [idx |-> idx, branches |-> stack]
             key == entry_key(a, idx)
             below == IF a.entries[idx].kind = "Dir"
                         /\ (filter_active(a) \/ key \in a.expanded)
                      THEN BuildRowsFrom(a, children, key, stack, 1)
                      ELSE <<>>
         IN  <<row>> \o below \o BuildRowsFrom(a, children, parent, branch_stack, pos + 1)

build_rows(a, children, parent, branch_stack) ==
    BuildRowsFrom(a, children, parent, branch_stack, 1)

saturating_sub(n, m) == IF n < m THEN 0 ELSE n - m

\* An apply_filter without the final clamp.
ClampCursorNever(c, len) == c

ClampCursor(c, len) == IF c >= len THEN saturating_sub(len, 1) ELSE c

\* An apply_filter without self.rows.clear().
apply_filter_appending(a) ==
    LET built == a.rows \o build_rows(a, Children(a), <<>>, <<>>)
    IN  [a EXCEPT !.rows = built, !.cursor = ClampCursor(a.cursor, Len(built))]

\* An apply_filter that records the directories a filter force-opens.
apply_filter_expanding(a) ==
    LET built == build_rows(a, Children(a), <<>>, <<>>)
        opened == {entry_key(a, built[i].idx) :
                      i \in {j \in DOMAIN built : a.entries[built[j].idx].kind = "Dir"}}
    IN  [a EXCEPT !.rows = built, !.cursor = ClampCursor(a.cursor, Len(built)),
                  !.expanded = IF filter_active(a) THEN a.expanded \cup opened
                               ELSE a.expanded]

apply_filter(a) ==
    LET built == build_rows(a, Children(a), <<>>, <<>>)
    IN  [a EXCEPT !.rows = built, !.cursor = ClampCursor(a.cursor, Len(built))]

\* rows.get(cursor)
RowAtCursor(a) == IF a.cursor < Len(a.rows) THEN Some(a.rows[a.cursor + 1]) ELSE None

\* An enter that only ever expands.
enter_expand_only(a) ==
    IF RowAtCursor(a) = None THEN a
    ELSE LET idx == RowAtCursor(a).some.idx
         IN  IF ~is_dir(a.entries[idx]) THEN a
             ELSE apply_filter([a EXCEPT !.expanded = a.expanded \cup {entry_key(a, idx)}])

enter(a) ==
    IF RowAtCursor(a) = None THEN a
    ELSE LET idx == RowAtCursor(a).some.idx
             key == entry_key(a, idx)
         IN  IF ~is_dir(a.entries[idx]) THEN a
             ELSE apply_filter([a EXCEPT !.expanded =
                        IF key \in a.expanded THEN a.expanded \ {key}
                        ELSE a.expanded \cup {key}])

selected_entry_path(a) ==
    IF RowAtCursor(a) = None THEN None
    ELSE relative_entry_path(a.entries[RowAtCursor(a).some.idx])

(***************************************************************************)
(* Strings.  Keys and buffers are character sequences; texts shown to the  *)
(* user (status, preview) are strings.                                     *)
(***************************************************************************)
RECURSIVE Str(_)
Str(cs) == IF cs = <<>> THEN "" ELSE Head(cs) \o Str(Tail(cs))

IsSpace(c) == c = " "

RECURSIVE TrimStart(_)
TrimStart(cs) ==
    IF cs # <<>> /\ IsSpace(Head(cs)) THEN TrimStart(Tail(cs)) ELSE cs

RECURSIVE TrimEnd(_)
TrimEnd(cs) ==
    IF cs # <<>> /\ IsSpace(cs[Len(cs)]) THEN TrimEnd(SubSeq(cs, 1, Len(cs) - 1)) ELSE cs

\* A trim that leaves trailing whitespace.
TrimLeading(cs) == TrimStart(cs)

\* str::trim
Trim(cs) == TrimEnd(TrimStart(cs))

\* String::pop
Pop(cs) == IF cs = <<>> THEN cs ELSE SubSeq(cs, 1, Len(cs) - 1)

\* The components of a relative path given as text: split at "/", empty
\* components (doubled or trailing separators) dropped.
RECURSIVE Components(_, _)
Components(cs, cur) ==
    IF cs = <<>> THEN (IF cur = <<>> THEN <<>> ELSE <<cur>>)
    ELSE IF Head(cs) = "/"
         THEN (IF cur = <<>> THEN <<>> ELSE <<cur>>) \o Components(Tail(cs), <<>>)
         ELSE Components(Tail(cs), Append(cur, Head(cs)))

\* store.join(text): a text starting with "/" is absolute and replaces the
\* store root, so the result lies outside the store.
Join(cs) ==
    [inside |-> (cs = <<>> \/ Head(cs) # "/"), path |-> Components(cs, <<>>)]

(***************************************************************************)
(* The store on disk, as the file-system probes of the code see it.        *)
(* fs = [root, dirs, files].  Outside the store only "/" is assumed to     *)
(* exist (a directory).                                                    *)
(***************************************************************************)
FsIsDir(fs, j) ==
    IF ~j.inside THEN j.path = <<>>
    ELSE fs.root /\ (j.path = <<>> \/ j.path \in fs.dirs)

FsIsFile(fs, j) == j.inside /\ fs.root /\ j.path \in fs.files

\* A probe that finds nothing.
FsExistsNever(fs, j) == FALSE

\* Path::exists
FsExists(fs, j) == FsIsDir(fs, j) \/ FsIsFile(fs, j)

(***************************************************************************)
(* Errors.  anyhow::Error as a record; `type` tells what downcast_ref      *)
(* finds.                                                                  *)
(***************************************************************************)
LockExitCode == 2

PassStatusError(context, code) ==
    [type |-> "PassStatusError", context |-> context, code |-> code]

OtherError(msg) == [type |-> "Other", msg |-> msg]

\* err.to_string()
ErrToString(err) ==
    IF err.type = "PassStatusError"
    THEN err.context \o " failed: exit status: " \o ToString(err.code)
    ELSE err.msg

Ok(v) == [ok |-> TRUE, val |-> v]

Err(e) == [ok |-> FALSE, err |-> e]

(***************************************************************************)
(* backend/mod.rs: what the retrieval and unlock collaborators return.     *)
(* An outcome `o` says how the external `pass` process ended:              *)
(* "ok" (exit 0), "locked" (exit 2), "exit1" (exit 1), "spawn" (the        *)
(* process could not be run, an io::Error).                                *)
(***************************************************************************)
Outcomes == {"ok", "locked", "exit1", "spawn"}

ShowContext(mode) == IF mode = "Qr" THEN "pass show -q" ELSE "pass show"

SpawnError == OtherError("No such file or directory (os error 2)")

\* The output of `pass <entry>` / `pass show -q <entry>`.
Content(rel, mode) == (IF mode = "Qr" THEN "qr:" ELSE "raw:") \o Str(rel)

\* capture_string behind show (mode Raw) and show_qr (mode Qr).
BackendShow(o, rel, mode) ==
    IF o = "ok" THEN Ok(Content(rel, mode))
    ELSE IF o = "spawn" THEN Err(SpawnError)
    ELSE Err(PassStatusError(ShowContext(mode), IF o = "locked" THEN LockExitCode ELSE 1))

\* PassCliBackend::unlock
BackendUnlock(o, rel, qr) ==
    IF o = "ok" THEN Ok("unit")
    ELSE IF o = "spawn" THEN Err(SpawnError)
    ELSE Err(PassStatusError(ShowContext(IF qr THEN "Qr" ELSE "Raw"),
                             IF o = "locked" THEN LockExitCode ELSE 1))

\* PassCliBackend::yank
BackendYank(o, rel) ==
    IF o = "ok" THEN Ok("unit")
    ELSE IF o = "spawn" THEN Err(SpawnError)
    ELSE Err(OtherError("pass -c failed: exit status: "
                        \o ToString(IF o = "locked" THEN LockExitCode ELSE 1)))

ShowCall(rel, mode, result) ==
    [op |-> IF mode = "Qr" THEN "show_qr" ELSE "show", entry |-> rel, result |-> result]

(***************************************************************************)
(* app.rs: the preview workflow.                                           *)
(***************************************************************************)
LockedText == "GPG key locked. Prompting for passphrase..."

\* A set_preview_state that forgets the mode.
set_preview_state_keep_mode(a, rel, text, is_error, mode) ==
    [a EXCEPT !.preview_key = Some(rel), !.preview_text = text,
              !.preview_is_error = is_error]

set_preview_state(a, rel, text, is_error, mode) ==
    [a EXCEPT !.preview_key = Some(rel), !.preview_text = text,
              !.preview_is_error = is_error, !.preview_mode = mode]

\* A load_preview that shows the placeholder but queues no retry.
load_preview_unqueued(a, rel, mode, allow_unlock, result) ==
    IF result.ok
    THEN [app |-> [a EXCEPT !.pending_preview = None, !.preview_key = Some(rel),
                            !.preview_text = result.val, !.preview_is_error = FALSE,
                            !.preview_mode = mode],
          ret |-> Ok("unit")]
    ELSE IF ~allow_unlock /\ result.err.type = "PassStatusError"
            /\ result.err.code = LockExitCode
    THEN [app |-> [a EXCEPT !.preview_key = Some(rel), !.preview_text = LockedText,
                            !.preview_is_error = TRUE, !.preview_mode = mode],
          ret |-> Ok("unit")]
    ELSE [app |-> [a EXCEPT !.preview_key = Some(rel),
                            !.preview_text = ErrToString(result.err),
                            !.preview_is_error = TRUE, !.preview_mode = mode],
          ret |-> Err(result.err)]

\* A load_preview that absorbs a lock failure on the retry as well.
load_preview_always_absorbing(a, rel, mode, allow_unlock, result) ==
    IF result.ok
    THEN [app |-> [a EXCEPT !.pending_preview = None, !.preview_key = Some(rel),
                            !.preview_text = result.val, !.preview_is_error = FALSE,
                            !.preview_mode = mode],
          ret |-> Ok("unit")]
    ELSE IF result.err.type = "PassStatusError" /\ result.err.code = LockExitCode
    THEN [app |-> [a EXCEPT !.pending_preview = Some(<<rel, mode>>),
                            !.preview_key = Some(rel), !.preview_text = LockedText,
                            !.preview_is_error = TRUE, !.preview_mode = mode],
          ret |-> Ok("unit")]
    ELSE [app |-> [a EXCEPT !.preview_key = Some(rel),
                            !.preview_text = ErrToString(result.err),
                            !.preview_is_error = TRUE, !.preview_mode = mode],
          ret |-> Err(result.err)]

\* load_preview, given what backend.show / show_qr returned: the new App and
\* the Result returned to the caller.
load_preview(a, rel, mode, allow_unlock, result) ==
    IF result.ok
    THEN [app |-> set_preview_state([a EXCEPT !.pending_preview = None],
                                    rel, result.val, FALSE, mode),
          ret |-> Ok("unit")]
    ELSE IF ~allow_unlock /\ result.err.type = "PassStatusError"
            /\ result.err.code = LockExitCode
    THEN [app |-> set_preview_state([a EXCEPT !.pending_preview = Some(<<rel, mode>>)],
                                    rel, LockedText, TRUE, mode),
          ret |-> Ok("unit")]
    ELSE [app |-> set_preview_state(a, rel, ErrToString(result.err), TRUE, mode),
          ret |-> Err(result.err)]

\* take_pending_preview: the App afterwards (the taken value is a.pending_preview).
take_pending_preview(a) == [a EXCEPT !.pending_preview = None]

load_preview_after_unlock(a, rel, mode, result) ==
    load_preview(a, rel, mode, TRUE, result)

\* The collaborator calls update_preview / update_preview_qr make.
UpdatePreviewLog(a, o, mode) ==
    <<ShowCall(selected_entry_path(a).some, mode,
               BackendShow(o, selected_entry_path(a).some, mode))>>

\* An update_preview that fetches whenever a leaf is selected.
UpdatePreviewCallsAlways(a) == selected_entry_path(a) # None

\* Does update_preview call the backend?
UpdatePreviewCalls(a) ==
    /\ selected_entry_path(a) # None
    /\ (a.preview_key # selected_entry_path(a) \/ a.preview_mode # "Raw")

\* An update_preview that keeps what it shows when no leaf is selected.
update_preview_keeping(a, o) ==
    IF selected_entry_path(a) = None THEN a
    ELSE IF ~UpdatePreviewCalls(a) THEN a
    ELSE LET rel == selected_entry_path(a).some
             r == load_preview(a, rel, "Raw", FALSE, BackendShow(o, rel, "Raw"))
         IN  IF r.ret.ok THEN r.app
             ELSE [r.app EXCEPT !.status = Some(ErrToString(r.ret.err))]

\* update_preview, `o` being how backend.show ends if it is called.
update_preview(a, o) ==
    IF selected_entry_path(a) = None
    THEN [a EXCEPT !.preview_key = None, !.preview_text = "",
                   !.preview_is_error = FALSE, !.preview_mode = "Raw",
                   !.pending_preview = None]
    ELSE IF ~UpdatePreviewCalls(a) THEN a
    ELSE LET rel == selected_entry_path(a).some
             r == load_preview(a, rel, "Raw", FALSE, BackendShow(o, rel, "Raw"))
         IN  IF r.ret.ok THEN r.app
             ELSE [r.app EXCEPT !.status = Some(ErrToString(r.ret.err))]

UpdatePreviewQrCalls(a) ==
    /\ selected_entry_path(a) # None
    /\ (a.preview_key # selected_entry_path(a) \/ a.preview_mode # "Qr")

update_preview_qr(a, o) ==
    IF ~UpdatePreviewQrCalls(a) THEN a
    ELSE LET rel == selected_entry_path(a).some
             r == load_preview(a, rel, "Qr", FALSE, BackendShow(o, rel, "Qr"))
         IN  IF r.ret.ok THEN r.app
             ELSE [r.app EXCEPT !.status = Some(ErrToString(r.ret.err))]

(***************************************************************************)
(* app.rs: modals and the mutation coordinator.                            *)
(***************************************************************************)
AddHere == [tag |-> "AddHere"]

DeleteSelected == [tag |-> "DeleteSelected"]

RenameFrom(from) == [tag |-> "Rename", from |-> from]

ModalInput(title, buffer, action) ==
    [type |-> "Input", title |-> title, buffer |-> buffer, action |-> action]

ModalConfirm(title, message, action, selected_ok) ==
    [type |-> "Confirm", title |-> title, message |-> message,
     action |-> action, selected_ok |-> selected_ok]

PendingEdit(rel) == [tag |-> "Edit", rel |-> rel]

PendingAdd(path) == [tag |-> "Add", path |-> path]

PendingDelete == [tag |-> "Delete"]

PendingRename(from, to) == [tag |-> "Rename", from |-> from, to |-> to]

open_add_modal(a) ==
    LET row == RowAtCursor(a)
        entry == a.entries[row.some.idx]
        prefix == IF row = None THEN <<>>
                  ELSE IF is_dir(entry) THEN store_key(entry)
                  ELSE IF Parent(entry.path) # None
                       THEN path_to_store_key(Parent(entry.path).some)
                       ELSE <<>>
        buffer == IF row # None /\ prefix # <<>> THEN Append(prefix, "/") ELSE prefix
    IN  [a EXCEPT !.modal = Some(ModalInput("New entry path", buffer, AddHere))]

selected_any_path_and_name(a) ==
    LET row == RowAtCursor(a)
        entry == a.entries[row.some.idx]
    IN  IF row = None THEN None
        ELSE IF is_dir(entry) THEN Some(<<store_key(entry), store_key(entry)>>)
        ELSE Some(<<relative_entry_path(entry).some, relative_entry_path(entry).some>>)

open_rename_modal(a) ==
    LET sel == selected_any_path_and_name(a)
    IN  IF sel = None THEN a
        ELSE [a EXCEPT !.modal =
                Some(ModalInput("Rename entry", sel.some[2], RenameFrom(sel.some[1])))]

open_delete_modal(a) ==
    [a EXCEPT !.modal = Some(ModalConfirm("Confirm Delete", "Delete selected entry?",
                                          DeleteSelected, TRUE))]

\* path_exists: the directory probe, then set_extension("gpg") and the file probe.
path_exists(fs, rel) ==
    LET p == Join(rel)
        f == [p EXCEPT !.path = SetExtension(p.path, GpgExt)]
    IN  IF FsIsDir(fs, p) THEN TRUE ELSE FsIsFile(fs, f)

RenameAbortedText(to) == "Target '" \o Str(to) \o "' exists - rename aborted"

\* A submit_modal that does not look at the choice of the Confirm modal.
submit_modal_unconfirmed(a, fs) ==
    IF a.modal = None THEN [app |-> a, action |-> None]
    ELSE LET m == a.modal.some
             taken == [a EXCEPT !.modal = None]
             to == Trim(m.buffer)
         IN  IF m.type = "Confirm"
             THEN [app |-> taken,
                   action |-> IF m.action.tag = "DeleteSelected"
                              THEN Some(PendingDelete) ELSE None]
             ELSE IF m.action.tag = "AddHere"
             THEN [app |-> taken,
                   action |-> IF to = <<>> THEN None ELSE Some(PendingAdd(to))]
             ELSE IF m.action.tag = "DeleteSelected" \/ to = <<>> \/ to = m.action.from
             THEN [app |-> taken, action |-> None]
             ELSE IF path_exists(fs, to)
             THEN [app |-> [taken EXCEPT !.status = Some(RenameAbortedText(to))],
                   action |-> None]
             ELSE [app |-> taken, action |-> Some(PendingRename(m.action.from, to))]

\* submit_modal: the App afterwards and the Option<PendingAction> returned.
submit_modal(a, fs) ==
    IF a.modal = None THEN [app |-> a, action |-> None]
    ELSE LET m == a.modal.some
             taken == [a EXCEPT !.modal = None]
         IN  IF m.type = "Input"
             THEN IF m.action.tag = "AddHere"
                  THEN [app |-> taken,
                        action |-> IF Trim(m.buffer) = <<>> THEN None
                                   ELSE Some(PendingAdd(Trim(m.buffer)))]
                  ELSE IF m.action.tag = "DeleteSelected"
                  THEN [app |-> taken, action |-> None]
                  ELSE LET to == Trim(m.buffer)
                       IN  IF to = <<>> \/ to = m.action.from
                           THEN [app |-> taken, action |-> None]
                           ELSE IF path_exists(fs, to)
                           THEN [app |-> [taken EXCEPT !.status = Some(RenameAbortedText(to))],
                                 action |-> None]
                           ELSE [app |-> taken,
                                 action |-> Some(PendingRename(m.action.from, to))]
             ELSE [app |-> taken,
                   action |-> IF m.action.tag = "DeleteSelected" /\ m.selected_ok
                              THEN Some(PendingDelete) ELSE None]

\* The backend.rm call of delete_selected: its arguments, or None.
DeleteCall(a) ==
    LET row == RowAtCursor(a)
        entry == a.entries[row.some.idx]
    IN  IF row = None THEN None
        ELSE IF is_dir(entry) THEN Some([target |-> store_key(entry), recursive |-> TRUE])
        ELSE Some([target |-> relative_entry_path(entry).some, recursive |-> FALSE])

\* refresh, given the store on disk: the App afterwards and the Result.
refresh(a, fs) ==
    LET built == build_store_index(fs.root, fs.dirs, fs.files)
    IN  IF ~built.ok THEN [app |-> a, ret |-> Err(OtherError("Password store not found"))]
        ELSE [app |-> apply_filter([a EXCEPT !.entries = built.val]), ret |-> Ok("unit")]

(***************************************************************************)
(* backend/mod.rs: the move collaborator, on the store on disk.            *)
(***************************************************************************)
ProperPrefixes(p) == {SubSeq(p, 1, k) : k \in 1..(Len(p) - 1)}

Prefixes(p) == {SubSeq(p, 1, k) : k \in 1..Len(p)}

\* resolve_source: (path, is_dir) or "source not found".
resolve_source(fs, key) ==
    LET dir == Join(key)
        file == Join(key \o <<".">> \o GpgExt)
    IN  IF FsIsDir(fs, dir) THEN Ok([at |-> dir, is_dir |-> TRUE])
        ELSE IF FsIsFile(fs, file) THEN Ok([at |-> file, is_dir |-> FALSE])
        ELSE Err(OtherError("source not found: " \o Str(key)))

destination_path(key, as_dir) ==
    IF as_dir THEN Join(key) ELSE Join(key \o <<".">> \o GpgExt)

\* fs::create_dir_all(d) inside the store: fails where a component is a file.
CreateDirAllOk(fs, d) == fs.root /\ Prefixes(d) \cap fs.files = {}

CreateDirAll(fs, d) == [fs EXCEPT !.dirs = fs.dirs \cup Prefixes(d)]

\* fs::rename of the directory tree at sp to dp.
RenameTree(fs, sp, dp) ==
    LET moved(x) == dp \o SubSeq(x, Len(sp) + 1, Len(x))
    IN  [fs EXCEPT !.dirs = {d \in fs.dirs : ~StartsWith(d, sp)}
                            \cup {moved(d) : d \in {x \in fs.dirs : StartsWith(x, sp)}},
                   !.files = {f \in fs.files : ~StartsWith(f, sp)}
                            \cup {moved(f) : f \in {x \in fs.files : StartsWith(x, sp)}}]

RenameFile(fs, sp, dp) == [fs EXCEPT !.files = (fs.files \ {sp}) \cup {dp}]

IoError == OtherError("io error")

\* PassCliBackend::mv: the store afterwards and the Result.  A destination
\* outside the store, a move of the store root and a move of a directory
\* into itself end in an io error of the file system.
mv(fs, from, to) ==
    LET found == resolve_source(fs, from)
        src == found.val.at
        src_is_dir == found.val.is_dir
        dst == destination_path(to, src_is_dir)
        parent == Parent(dst.path)
        made == IF parent = None THEN fs ELSE CreateDirAll(fs, parent.some)
    IN  IF ~found.ok THEN [fs |-> fs, ret |-> found]
        ELSE IF ~dst.inside THEN [fs |-> fs, ret |-> Err(IoError)]
        ELSE IF parent # None /\ ~CreateDirAllOk(fs, parent.some)
        THEN [fs |-> fs, ret |-> Err(IoError)]
        ELSE IF FsExists(made, dst)
        THEN [fs |-> made, ret |-> Err(OtherError("destination exists: " \o Str(to)))]
        ELSE IF src_is_dir /\ (src.path = <<>> \/ ~src.inside \/ StartsWith(dst.path, src.path))
        THEN [fs |-> made, ret |-> Err(IoError)]
        ELSE IF src_is_dir
        THEN [fs |-> RenameTree(made, src.path, dst.path), ret |-> Ok("unit")]
        ELSE [fs |-> RenameFile(made, src.path, dst.path), ret |-> Ok("unit")]

(***************************************************************************)
(* The external `pass` program, as far as it changes the store.            *)
(***************************************************************************)
\* Directories left empty are removed upwards (rmdir -p), the root excepted.
RECURSIVE PruneEmpty(_, _)
PruneEmpty(fs, d) ==
    IF d = <<>> \/ d \notin fs.dirs THEN fs
    ELSE IF \E x \in fs.dirs \cup fs.files : x # d /\ StartsWith(x, d) THEN fs
    ELSE PruneEmpty([fs EXCEPT !.dirs = fs.dirs \ {d}], SubSeq(d, 1, Len(d) - 1))

\* `pass rm [-r] -f target` that exits 0: the file target.gpg if there is one,
\* else with -r the directory tree; None when pass has nothing it can remove.
PassRm(fs, target, recursive) ==
    LET file == Join(target \o <<".">> \o GpgExt)
        dir == Join(target)
    IN  IF FsIsFile(fs, file)
        THEN Some(PruneEmpty([fs EXCEPT !.files = fs.files \ {file.path}],
                             SubSeq(file.path, 1, Len(file.path) - 1)))
        ELSE IF recursive /\ dir.inside /\ dir.path # <<>> /\ FsIsDir(fs, dir)
        THEN Some([fs EXCEPT !.dirs = {d \in fs.dirs : ~StartsWith(d, dir.path)},
                             !.files = {f \in fs.files : ~StartsWith(f, dir.path)}])
        ELSE None

\* `pass edit entry` that saves: the file entry.gpg exists afterwards, with
\* its directories; None when that file cannot be created.
PassEditSave(fs, entry) ==
    LET file == Join(entry \o <<".">> \o GpgExt)
        dir == SubSeq(file.path, 1, Len(file.path) - 1)
    IN  IF fs.root /\ file.inside /\ entry # <<>> /\ entry[Len(entry)] # "/"
           /\ CreateDirAllOk(fs, dir) /\ file.path \notin fs.dirs
        THEN Some([CreateDirAll(fs, dir) EXCEPT !.files = @ \cup {file.path}])
        ELSE None

(***************************************************************************)
(* ui.rs: key handling.  A key event is [code |-> "Down"] or               *)
(* [code |-> "Char", c |-> "q"], its modifiers empty or SHIFT.             *)
(***************************************************************************)
Key(code) == [code |-> code]

Char(c) == [code |-> "Char", c |-> c]

IsChar(key, cs) == key.code = "Char" /\ key.c \in cs

\* A handle_modal_key in which Esc submits like Enter.
handle_modal_key_esc_submits(a, fs, key) ==
    IF a.modal = None THEN [handled |-> FALSE, app |-> a]
    ELSE LET m == a.modal.some
             edited ==
                IF m.type = "Input"
                THEN IF key.code = "Backspace"
                     THEN [m EXCEPT !.buffer = Pop(m.buffer)]
                     ELSE IF key.code = "Char"
                     THEN [m EXCEPT !.buffer = Append(m.buffer, key.c)]
                     ELSE m
                ELSE IF key.code \in {"Left", "Right", "Tab"}
                     THEN [m EXCEPT !.selected_ok = ~m.selected_ok]
                     ELSE m
             sub == submit_modal(a, fs)
         IN  IF key.code \in {"Esc", "Enter"}
             THEN [handled |-> TRUE,
                   app |-> IF sub.action # None
                           THEN [sub.app EXCEPT !.pending = sub.action]
                           ELSE sub.app]
             ELSE [handled |-> TRUE, app |-> [a EXCEPT !.modal = Some(edited)]]

\* A handle_modal_key that passes on the keys the modal has no use for.
handle_modal_key_passing(a, fs, key) ==
    IF a.modal = None THEN [handled |-> FALSE, app |-> a]
    ELSE LET m == a.modal.some
             edited ==
                IF m.type = "Input"
                THEN IF key.code = "Backspace"
                     THEN [m EXCEPT !.buffer = Pop(m.buffer)]
                     ELSE IF key.code = "Char"
                     THEN [m EXCEPT !.buffer = Append(m.buffer, key.c)]
                     ELSE m
                ELSE IF key.code \in {"Left", "Right", "Tab"}
                     THEN [m EXCEPT !.selected_ok = ~m.selected_ok]
                     ELSE m
             sub == submit_modal(a, fs)
         IN  IF key.code = "Esc" THEN [handled |-> TRUE, app |-> [a EXCEPT !.modal = None]]
             ELSE IF key.code = "Enter"
             THEN [handled |-> TRUE,
                   app |-> IF sub.action # None
                           THEN [sub.app EXCEPT !.pending = sub.action]
                           ELSE sub.app]
             ELSE IF edited = m /\ key.code \notin {"Backspace", "Left", "Right", "Tab"}
             THEN [handled |-> FALSE, app |-> a]
             ELSE [handled |-> TRUE, app |-> [a EXCEPT !.modal = Some(edited)]]

\* handle_modal_key: has it consumed the key, and the App afterwards.
handle_modal_key(a, fs, key) ==
    IF a.modal = None THEN [handled |-> FALSE, app |-> a]
    ELSE LET m == a.modal.some
             dismiss == key.code = "Esc"
             submit == key.code = "Enter"
             edited ==
                IF m.type = "Input"
                THEN IF key.code = "Backspace"
                     THEN [m EXCEPT !.buffer = Pop(m.buffer)]
                     ELSE IF key.code = "Char"
                     THEN [m EXCEPT !.buffer = Append(m.buffer, key.c)]
                     ELSE m
                ELSE IF key.code \in {"Left", "Right", "Tab"}
                     THEN [m EXCEPT !.selected_ok = ~m.selected_ok]
                     ELSE m
             sub == submit_modal(a, fs)
         IN  IF dismiss THEN [handled |-> TRUE, app |-> [a EXCEPT !.modal = None]]
             ELSE IF submit
             THEN [handled |-> TRUE,
                   app |-> IF sub.action # None
                           THEN [sub.app EXCEPT !.pending = sub.action]
                           ELSE sub.app]
             ELSE [handled |-> TRUE, app |-> [a EXCEPT !.modal = Some(edited)]]

\* handle_filter_key: has it consumed the key, and the App afterwards.
handle_filter_key(a, key) ==
    IF ~a.filter_mode THEN [handled |-> FALSE, app |-> a]
    ELSE [handled |-> TRUE,
          app |-> IF key.code = "Esc"
                  THEN apply_filter([a EXCEPT !.filter_mode = FALSE, !.filter = <<>>,
                                              !.filter_input = <<>>])
                  ELSE IF key.code = "Enter"
                  THEN apply_filter([a EXCEPT !.filter = a.filter_input,
                                              !.filter_mode = FALSE])
                  ELSE IF key.code = "Backspace"
                  THEN [a EXCEPT !.filter_input = Pop(a.filter_input)]
                  ELSE IF key.code = "Char"
                  THEN [a EXCEPT !.filter_input = Append(a.filter_input, key.c)]
                  ELSE a]

\* The Left / Right arms: collapse (want = FALSE) or expand the directory
\* under the cursor.
SetExpanded(a, want) ==
    LET row == RowAtCursor(a)
        entry == a.entries[row.some.idx]
        key == path_to_store_key(StripPrefixOr(entry.path, a.cwd))
    IN  IF row = None THEN [app |-> a, changed |-> FALSE]
        ELSE IF ~is_dir(entry) THEN [app |-> a, changed |-> FALSE]
        ELSE IF (key \in a.expanded) = want THEN [app |-> a, changed |-> FALSE]
        ELSE [app |-> apply_filter([a EXCEPT !.expanded =
                        IF want THEN a.expanded \cup {key} ELSE a.expanded \ {key}]),
              changed |-> TRUE]

\* The match of handle_key once no modal and no filter input took the key.
\* `o` is how the one collaborator call of the arm (show, show_qr, yank) ends.
NormalKey(a, key, o) ==
    LET sel == selected_entry_path(a)
        same == [app |-> a, changed |-> FALSE, calls |-> <<>>]
    IN  IF IsChar(key, {"q", "Q"})
        THEN [same EXCEPT !.app = [a EXCEPT !.quit = TRUE]]
        ELSE IF key.code = "Down" \/ IsChar(key, {"j"})
        THEN IF a.cursor + 1 < Len(a.rows)
             THEN [same EXCEPT !.app = [a EXCEPT !.cursor = a.cursor + 1], !.changed = TRUE]
             ELSE same
        ELSE IF key.code = "Up" \/ IsChar(key, {"k"})
        THEN IF a.cursor > 0
             THEN [same EXCEPT !.app = [a EXCEPT !.cursor = a.cursor - 1], !.changed = TRUE]
             ELSE same
        ELSE IF key.code = "Enter"
        THEN IF sel # None
             THEN [app |-> update_preview(a, o), changed |-> TRUE,
                   calls |-> IF UpdatePreviewCalls(a)
                             THEN UpdatePreviewLog(a, o, "Raw") ELSE <<>>]
             ELSE [same EXCEPT !.app = enter(a), !.changed = TRUE]
        ELSE IF IsChar(key, {"c", "C"})
        THEN IF sel # None
             THEN [app |-> update_preview_qr(a, o), changed |-> TRUE,
                   calls |-> IF UpdatePreviewQrCalls(a)
                             THEN UpdatePreviewLog(a, o, "Qr") ELSE <<>>]
             ELSE same
        ELSE IF key.code = "Left" \/ IsChar(key, {"h"})
        THEN [same EXCEPT !.app = SetExpanded(a, FALSE).app,
                          !.changed = SetExpanded(a, FALSE).changed]
        ELSE IF key.code = "Right" \/ IsChar(key, {"l"})
        THEN [same EXCEPT !.app = SetExpanded(a, TRUE).app,
                          !.changed = SetExpanded(a, TRUE).changed]
        ELSE IF IsChar(key, {"/"})
        THEN [same EXCEPT !.app = [a EXCEPT !.filter_mode = TRUE, !.filter_input = a.filter],
                          !.changed = TRUE]
        ELSE IF key.code = "Esc"
        THEN [same EXCEPT !.app = [apply_filter([a EXCEPT !.filter = <<>>])
                                      EXCEPT !.status = None],
                          !.changed = TRUE]
        ELSE IF IsChar(key, {"y", "Y"})
        THEN IF sel # None
             THEN [app |-> IF BackendYank(o, sel.some).ok THEN a
                           ELSE [a EXCEPT !.status =
                                    Some(ErrToString(BackendYank(o, sel.some).err))],
                   changed |-> TRUE,
                   calls |-> <<[op |-> "yank", entry |-> sel.some,
                                result |-> BackendYank(o, sel.some)]>>]
             ELSE same
        ELSE IF IsChar(key, {"e", "E"})
        THEN IF sel # None
             THEN [same EXCEPT !.app = [a EXCEPT !.pending = Some(PendingEdit(sel.some))],
                               !.changed = TRUE]
             ELSE same
        ELSE IF IsChar(key, {"r", "R"})
        THEN [same EXCEPT !.app = open_rename_modal(a), !.changed = TRUE]
        ELSE IF IsChar(key, {"a", "A"})
        THEN [same EXCEPT !.app = open_add_modal(a), !.changed = TRUE]
        ELSE IF IsChar(key, {"d", "D"})
        THEN [same EXCEPT !.app = open_delete_modal(a), !.changed = TRUE]
        ELSE same

\* A handle_key that reloads the preview whenever the cursor has moved.
handle_key_previewing(a, fs, key, o) ==
    IF handle_modal_key(a, fs, key).handled
    THEN [app |-> handle_modal_key(a, fs, key).app, changed |-> TRUE, calls |-> <<>>]
    ELSE IF handle_filter_key(a, key).handled
    THEN [app |-> handle_filter_key(a, key).app, changed |-> TRUE, calls |-> <<>>]
    ELSE IF NormalKey(a, key, o).app.cursor = a.cursor THEN NormalKey(a, key, o)
    ELSE [app |-> update_preview(NormalKey(a, key, o).app, "ok"), changed |-> TRUE,
          calls |-> IF UpdatePreviewCalls(NormalKey(a, key, o).app)
                    THEN UpdatePreviewLog(NormalKey(a, key, o).app, "ok", "Raw")
                    ELSE <<>>]

\* handle_key: the App afterwards, the redraw flag returned, the collaborator
\* calls made.
handle_key(a, fs, key, o) ==
    IF handle_modal_key(a, fs, key).handled
    THEN [app |-> handle_modal_key(a, fs, key).app, changed |-> TRUE, calls |-> <<>>]
    ELSE IF handle_filter_key(a, key).handled
    THEN [app |-> handle_filter_key(a, key).app, changed |-> TRUE, calls |-> <<>>]
    ELSE NormalKey(a, key, o)

\* Does handle_key reach a collaborator whose outcome must be chosen?
KeyCallsBackend(a, key) ==
    /\ a.modal = None /\ ~a.filter_mode /\ selected_entry_path(a) # None
    /\ \/ key.code = "Enter" /\ UpdatePreviewCalls(a)
       \/ IsChar(key, {"c", "C"}) /\ UpdatePreviewQrCalls(a)
       \/ IsChar(key, {"y", "Y"})

(***************************************************************************)
(* ui.rs: the queued action, run against the store on disk.                *)
(***************************************************************************)
\* PassCliBackend::edit (and add, which is edit): exit 0 saves, exit 1 is
\* "nothing changed" and counts as success.
BackendEdit(fs, o, entry) ==
    IF o = "ok"
    THEN [fs |-> IF PassEditSave(fs, entry) = None THEN fs ELSE PassEditSave(fs, entry).some,
          ret |-> Ok("unit")]
    ELSE IF o = "exit1" THEN [fs |-> fs, ret |-> Ok("unit")]
    ELSE IF o = "spawn" THEN [fs |-> fs, ret |-> Err(SpawnError)]
    ELSE [fs |-> fs, ret |-> Err(OtherError("pass edit failed: exit status: "
                                            \o ToString(LockExitCode)))]

\* PassCliBackend::rm: `flags` are the arguments between "rm" and the target.
BackendRm(fs, o, target, recursive) ==
    LET flags == (IF recursive THEN <<"-r">> ELSE <<>>) \o <<"-f">>
    IN  IF o = "spawn" THEN [fs |-> fs, ret |-> Err(SpawnError), flags |-> flags]
        ELSE IF o = "ok" /\ PassRm(fs, target, recursive) # None
        THEN [fs |-> PassRm(fs, target, recursive).some, ret |-> Ok("unit"),
              flags |-> flags]
        ELSE [fs |-> fs,
              ret |-> Err(OtherError("pass rm failed: exit status: "
                                     \o ToString(IF o = "locked" THEN LockExitCode ELSE 1))),
              flags |-> flags]

\* delete_selected: the store and the App afterwards, the Result, the calls.
delete_selected(a, fs, o) ==
    LET call == DeleteCall(a)
        rm == BackendRm(fs, o, call.some.target, call.some.recursive)
        log == <<[op |-> "rm", target |-> call.some.target,
                  recursive |-> call.some.recursive, flags |-> rm.flags,
                  result |-> rm.ret]>>
    IN  IF call = None THEN [fs |-> fs, app |-> a, ret |-> Ok("unit"), calls |-> <<>>]
        ELSE IF ~rm.ret.ok THEN [fs |-> fs, app |-> a, ret |-> rm.ret, calls |-> log]
        ELSE [fs |-> rm.fs, app |-> refresh(a, rm.fs).app,
              ret |-> refresh(a, rm.fs).ret, calls |-> log]

\* run_action
run_action(a, fs, action, o) ==
    IF action.tag = "Edit"
    THEN [fs |-> BackendEdit(fs, o, action.rel).fs, app |-> a,
          ret |-> BackendEdit(fs, o, action.rel).ret,
          calls |-> <<[op |-> "edit", entry |-> action.rel,
                       result |-> BackendEdit(fs, o, action.rel).ret]>>]
    ELSE IF action.tag = "Add"
    THEN [fs |-> BackendEdit(fs, o, action.path).fs, app |-> a,
          ret |-> BackendEdit(fs, o, action.path).ret,
          calls |-> <<[op |-> "add", entry |-> action.path,
                       result |-> BackendEdit(fs, o, action.path).ret]>>]
    ELSE IF action.tag = "Delete" THEN delete_selected(a, fs, o)
    ELSE [fs |-> mv(fs, action.from, action.to).fs, app |-> a,
          ret |-> mv(fs, action.from, action.to).ret,
          calls |-> <<[op |-> "mv", from |-> action.from, to |-> action.to,
                       result |-> mv(fs, action.from, action.to).ret]>>]

\* A loop that drops the error of a block instead of showing it.
WithStatusDropped(a, ret) == a

\* if let Err(e) = res { app.status = Some(e.to_string()) }
WithStatus(a, ret) == IF ret.ok THEN a ELSE [a EXCEPT !.status = Some(ErrToString(ret.err))]

\* A pending block that does not rebuild the index.
RunPendingBlockStale(a, fs, o, oshow) ==
    LET taken == [a EXCEPT !.pending = None]
        ran == run_action(taken, fs, a.pending.some, o)
        a1 == WithStatus(ran.app, ran.ret)
    IN  [fs |-> ran.fs, app |-> update_preview(a1, oshow),
         calls |-> ran.calls \o (IF UpdatePreviewCalls(a1)
                                 THEN UpdatePreviewLog(a1, oshow, "Raw") ELSE <<>>)]

\* A pending block that reads the queued action without taking it.
RunPendingBlockKeeping(a, fs, o, oshow) ==
    LET ran == run_action(a, fs, a.pending.some, o)
        a1 == WithStatus(ran.app, ran.ret)
        fresh == refresh(a1, ran.fs)
        a2 == WithStatus(fresh.app, fresh.ret)
    IN  [fs |-> ran.fs, app |-> update_preview(a2, oshow),
         calls |-> ran.calls \o (IF UpdatePreviewCalls(a2)
                                 THEN UpdatePreviewLog(a2, oshow, "Raw") ELSE <<>>)]

\* A pending block that leaves the full screen for every action.
RunPendingBlockSuspending(a, fs, o, oshow) ==
    LET taken == [a EXCEPT !.pending = None]
        ran == run_action(taken, fs, a.pending.some, o)
        a1 == WithStatus(ran.app, ran.ret)
        fresh == refresh(a1, ran.fs)
        a2 == WithStatus(fresh.app, fresh.ret)
    IN  [fs |-> ran.fs, app |-> update_preview(a2, oshow),
         calls |-> [i \in DOMAIN ran.calls |-> ran.calls[i] @@ [suspended |-> TRUE]]
                   \o (IF UpdatePreviewCalls(a2)
                       THEN UpdatePreviewLog(a2, oshow, "Raw") ELSE <<>>)]

\* The `if let Some(action) = app.pending.take()` block of run.  Edit and
\* Add run inside suspend_and_run, Delete and Rename do not: the calls of the
\* action carry this as `suspended`.
RunPendingBlock(a, fs, o, oshow) ==
    LET taken == [a EXCEPT !.pending = None]
        suspended == a.pending.some.tag \in {"Edit", "Add"}
        ran == run_action(taken, fs, a.pending.some, o)
        a1 == WithStatus(ran.app, ran.ret)
        fresh == refresh(a1, ran.fs)
        a2 == WithStatus(fresh.app, fresh.ret)
    IN  [fs |-> ran.fs, app |-> update_preview(a2, oshow),
         calls |-> [i \in DOMAIN ran.calls |->
                        ran.calls[i] @@ [suspended |-> suspended]]
                   \o (IF UpdatePreviewCalls(a2)
                       THEN UpdatePreviewLog(a2, oshow, "Raw") ELSE <<>>)]

\* An unlock block that retries only after a successful unlock.
UnlockBlockRetryOnSuccess(a, o, oshow) ==
    LET rel == a.pending_preview.some[1]
        mode == a.pending_preview.some[2]
        unlock_result == BackendUnlock(o, rel, mode = "Qr")
        a1 == WithStatus(take_pending_preview(a), unlock_result)
        shown == BackendShow(oshow, rel, mode)
        loaded == load_preview_after_unlock(a1, rel, mode, shown)
        unlock_call == [op |-> "unlock", entry |-> rel, qr |-> (mode = "Qr"),
                        result |-> unlock_result]
    IN  IF unlock_result.ok
        THEN [app |-> WithStatus(loaded.app, loaded.ret),
              calls |-> <<unlock_call, ShowCall(rel, mode, shown)>>]
        ELSE [app |-> a1, calls |-> <<unlock_call>>]

\* The `if let Some((rel, mode)) = app.take_pending_preview()` block of run.
UnlockBlock(a, o, oshow) ==
    LET rel == a.pending_preview.some[1]
        mode == a.pending_preview.some[2]
        unlock_result == BackendUnlock(o, rel, mode = "Qr")
        a1 == WithStatus(take_pending_preview(a), unlock_result)
        shown == BackendShow(oshow, rel, mode)
        loaded == load_preview_after_unlock(a1, rel, mode, shown)
    IN  [app |-> WithStatus(loaded.app, loaded.ret),
         calls |-> <<[op |-> "unlock", entry |-> rel, qr |-> (mode = "Qr"),
                      result |-> unlock_result],
                     ShowCall(rel, mode, shown)>>]

(***************************************************************************)
(* The state machine.                                                      *)
(***************************************************************************)
App ==
    [cwd |-> cwd, entries |-> entries, rows |-> rows, expanded |-> expanded,
     cursor |-> cursor, quit |-> quit, modal |-> modal, pending |-> pending,
     pending_preview |-> pending_preview, filter |-> filter,
     filter_mode |-> filter_mode, filter_input |-> filter_input, status |-> status,
     preview_key |-> preview_key, preview_text |-> preview_text,
     preview_is_error |-> preview_is_error, preview_mode |-> preview_mode]

Fs == [root |-> fsRoot, dirs |-> fsDirs, files |-> fsFiles]

SetApp(a) ==
    /\ cwd' = a.cwd /\ entries' = a.entries /\ rows' = a.rows
    /\ expanded' = a.expanded /\ cursor' = a.cursor /\ quit' = a.quit
    /\ modal' = a.modal /\ pending' = a.pending
    /\ pending_preview' = a.pending_preview /\ filter' = a.filter
    /\ filter_mode' = a.filter_mode /\ filter_input' = a.filter_input
    /\ status' = a.status /\ preview_key' = a.preview_key
    /\ preview_text' = a.preview_text /\ preview_is_error' = a.preview_is_error
    /\ preview_mode' = a.preview_mode

SetFs(fs) == fsRoot' = fs.root /\ fsDirs' = fs.dirs /\ fsFiles' = fs.files

appVars == <<cwd, entries, rows, expanded, cursor, quit, modal, pending,
             pending_preview, filter, filter_mode, filter_input, status,
             preview_key, preview_text, preview_is_error, preview_mode>>

fsVars == <<fsDirs, fsFiles, fsRoot>>

\* Names and stores used by the initial states.
nN == <<"n">>

nO == <<"o">>

Gpg(name) == name \o <<".">> \o GpgExt

\* A store on disk is well formed: what holds a file or a directory is a
\* directory, and no path is both.
WellFormed(dirs, files) ==
    /\ \A p \in dirs \cup files : p # <<>> /\ ProperPrefixes(p) \subseteq dirs
    /\ dirs \cap files = {}

\* App::new_with_store on an existing store, then run() before its first line.
InitWith(dirs, files) ==
    /\ fsRoot = TRUE /\ fsDirs = dirs /\ fsFiles = files
    /\ cwd = <<>>
    /\ entries = build_store_index(TRUE, dirs, files).val
    /\ rows = <<>>
    /\ expanded = {<<>>}
    /\ cursor = 0
    /\ quit = FALSE
    /\ modal = None
    /\ pending = None
    /\ pending_preview = None
    /\ filter = <<>>
    /\ filter_mode = FALSE
    /\ filter_input = <<>>
    /\ status = None
    /\ preview_key = None
    /\ preview_text = ""
    /\ preview_is_error = FALSE
    /\ preview_mode = "Raw"
    /\ pc = "start"
    /\ needs_redraw = FALSE
    /\ calls = <<>>
    /\ faults = 0
    /\ mutations = 0

\* Where run() goes after the event: the first block with work to do.
AfterEvent(a) ==
    IF a.pending # None THEN "pending"
    ELSE IF a.pending_preview # None THEN "unlock"
    ELSE "draw"

Faulty(o) == IF o = "ok" THEN 0 ELSE 1

Min(x, y) == IF x <= y THEN x ELSE y

\* The outcomes a step may draw: with `limited`, no more than MaxFaults
\* failures in one run.
Allowed(outs, limited, used) ==
    IF limited /\ faults + used >= MaxFaults THEN outs \cap {"ok"} ELSE outs

Count(limited, n) == faults' = IF limited THEN Min(faults + n, MaxFaults) ELSE faults

\* run(): apply_filter, update_preview, needs_redraw = true.
Start(outs, limited) ==
    /\ pc = "start"
    /\ \E a \in {apply_filter(App)} :
          \E o \in (IF UpdatePreviewCalls(a) THEN Allowed(outs, limited, 0) ELSE {"ok"}) :
             \E r \in {update_preview(a, o)} :
                /\ SetApp(r)
                /\ calls' = IF UpdatePreviewCalls(a) THEN UpdatePreviewLog(a, o, "Raw") ELSE <<>>
                /\ Count(limited, Faulty(o))
    /\ pc' = "draw"
    /\ needs_redraw' = TRUE
    /\ UNCHANGED <<fsVars, mutations>>

\* if app.quit { break }, else the top of the loop:
\* if needs_redraw { terminal.draw(..); needs_redraw = false }
LoopTop ==
    /\ pc = "draw"
    /\ pc' = IF quit THEN "done" ELSE "poll"
    /\ needs_redraw' = IF quit THEN needs_redraw ELSE FALSE
    /\ calls' = <<>>
    /\ UNCHANGED <<appVars, fsVars, faults, mutations>>

\* The model types no further character into a full buffer.
Typable(key) ==
    IF key.code # "Char" THEN TRUE
    ELSE IF modal # None
    THEN (IF modal.some.type = "Input"
          THEN Len(modal.some.buffer) < MaxBufferLen ELSE TRUE)
    ELSE IF filter_mode THEN Len(filter_input) < MaxFilterLen
    ELSE TRUE

\* event::read() gave a key: handle_key.
KeyEvent(keys, outs, limited) ==
    /\ pc = "poll"
    /\ \E key \in keys :
          /\ Typable(key)
          /\ \E o \in (IF KeyCallsBackend(App, key)
                       THEN Allowed(outs, limited, 0) ELSE {"ok"}) :
                \E r \in {handle_key(App, Fs, key, o)} :
                    /\ SetApp(r.app)
                    /\ needs_redraw' = (needs_redraw \/ r.changed)
                    /\ calls' = r.calls
                    /\ pc' = AfterEvent(r.app)
                    /\ Count(limited, Faulty(o))
    /\ UNCHANGED <<fsVars, mutations>>

\* The poll timed out, or the event was neither a key nor a resize.
NoEvent ==
    /\ pc = "poll"
    /\ calls' = <<>>
    /\ pc' = AfterEvent(App)
    /\ UNCHANGED <<appVars, fsVars, needs_redraw, faults, mutations>>

\* Event::Resize
Resize ==
    /\ pc = "poll"
    /\ needs_redraw' = TRUE
    /\ calls' = <<>>
    /\ pc' = AfterEvent(App)
    /\ UNCHANGED <<appVars, fsVars, faults, mutations>>

\* Run the pending action, refresh, update the preview.
RunPending(outs, limited) ==
    /\ pc = "pending"
    /\ \E o \in Allowed(outs, limited, 0) :
          \E oshow \in Allowed(outs, limited, Faulty(o)) :
             \E r \in {RunPendingBlock(App, Fs, o, oshow)} :
                 /\ SetApp(r.app) /\ SetFs(r.fs) /\ calls' = r.calls
                 /\ pc' = IF r.app.pending_preview # None THEN "unlock" ELSE "draw"
                 /\ Count(limited, Faulty(o) + Faulty(oshow))
    /\ needs_redraw' = TRUE
    /\ mutations' = Min(mutations + 1, MaxMutations)

\* A pending preview: the interactive unlock, then the retry.
Unlock(outs, limited) ==
    /\ pc = "unlock"
    /\ \E o \in Allowed(outs, limited, 0) :
          \E oshow \in Allowed(outs, limited, Faulty(o)) :
             \E r \in {UnlockBlock(App, o, oshow)} :
                 /\ SetApp(r.app) /\ calls' = r.calls
                 /\ Count(limited, Faulty(o) + Faulty(oshow))
    /\ needs_redraw' = TRUE
    /\ pc' = "draw"
    /\ UNCHANGED <<fsVars, mutations>>

\* Outside the program: the store root is removed while the loop waits.
StoreLost ==
    /\ pc = "poll"
    /\ fsRoot
    /\ faults < MaxFaults
    /\ faults' = faults + 1
    /\ fsRoot' = FALSE /\ fsDirs' = {} /\ fsFiles' = {}
    /\ UNCHANGED <<appVars, pc, needs_redraw, calls, mutations>>

(***************************************************************************)
(* The session: every key of the program, every kind of collaborator       *)
(* outcome the App tells apart.                                            *)
(***************************************************************************)
ControlKeys ==
    {Key("Down"), Key("Up"), Key("Enter"), Key("Left"), Key("Right"),
     Key("Esc"), Key("Backspace"), Key("Tab")}

ViewChars == {"q", "c", "/", "y"}

MutationChars == {"e", "r", "a", "d"}

\* Characters typed into the filter input and into an input modal.
TypedChars == {"o"}

TextMode == filter_mode \/ (modal # None /\ modal.some.type = "Input")

SessionKeys ==
    IF TextMode THEN ControlKeys \cup {Char(c) : c \in TypedChars}
    ELSE ControlKeys \cup {Char(c) : c \in ViewChars \cup TypedChars}
         \cup (IF mutations < MaxMutations \/ modal # None
               THEN {Char(c) : c \in MutationChars} ELSE {})

SessionOutcomes == {"ok", "locked", "exit1"}

SessionStores ==
    { [dirs |-> {<<nN>>}, files |-> {<<nN, Gpg(nO)>>, <<Gpg(nN)>>}] }

Init == \E st \in SessionStores : InitWith(st.dirs, st.files)

Next ==
    \/ Start(SessionOutcomes, TRUE)
    \/ LoopTop
    \/ KeyEvent(SessionKeys, SessionOutcomes, TRUE)
    \/ NoEvent
    \/ Resize
    \/ RunPending(SessionOutcomes, TRUE)
    \/ Unlock(SessionOutcomes, TRUE)
    \/ StoreLost

Spec == Init /\ [][Next]_vars

(***************************************************************************)
(* The view: navigation, expand / collapse and the filter, over a family   *)
(* of stores (a leaf beside a directory of the same path, a .git           *)
(* directory with content, nested directories); collaborators succeed.     *)
(***************************************************************************)
ViewDirs == {<<nN>>, <<nN, nO>>, <<nO>>, <<GitName>>}

ViewFiles ==
    {<<Gpg(nN)>>, <<nN, Gpg(nO)>>, <<nN, nO, Gpg(nN)>>, <<GitName, Gpg(nO)>>}

ViewTyped == {"n", "o"}

ViewKeys ==
    IF TextMode THEN ControlKeys \cup {Char(c) : c \in ViewTyped}
    ELSE ControlKeys \cup {Char(c) : c \in {"/"} \cup ViewTyped}

InitView ==
    \E dirs \in SUBSET ViewDirs : \E files \in SUBSET ViewFiles :
        WellFormed(dirs, files) /\ InitWith(dirs, files)

NextView ==
    \/ Start({"ok"}, FALSE)
    \/ LoopTop
    \/ KeyEvent(ViewKeys, {"ok"}, FALSE)

SpecView == InitView /\ [][NextView]_vars

(***************************************************************************)
(* The preview workflow: selection, Raw and Qr requests, the unlock retry, *)
(* with every outcome of the collaborators at every call.                  *)
(***************************************************************************)
PreviewKeys ==
    {Key("Down"), Key("Up"), Key("Enter"), Key("Left"), Key("Right"), Key("Esc"),
     Char("c"), Char("y")}

InitPreview == \E st \in SessionStores : InitWith(st.dirs, st.files)

NextPreview ==
    \/ Start(Outcomes, FALSE)
    \/ LoopTop
    \/ KeyEvent(PreviewKeys, Outcomes, FALSE)
    \/ NoEvent
    \/ Unlock(Outcomes, FALSE)

SpecPreview == InitPreview /\ [][NextPreview]_vars

(***************************************************************************)
(* Renaming among leaves whose names hold a dot.                           *)
(***************************************************************************)
nOdotO == <<"o", ".", "o">>

nOdotOn == <<"o", ".", "o", "n">>

RenameStores == { [dirs |-> {}, files |-> {<<Gpg(nOdotO)>>, <<Gpg(nOdotOn)>>}] }

RenameKeys ==
    IF TextMode
    THEN {Key("Enter"), Key("Esc"), Key("Backspace"), Char("n")}
    ELSE {Key("Down"), Key("Up"), Key("Enter"), Key("Esc")}
         \cup (IF mutations < MaxMutations THEN {Char("r")} ELSE {})

InitRename == \E st \in RenameStores : InitWith(st.dirs, st.files)

NextRename ==
    \/ Start({"ok"}, FALSE)
    \/ LoopTop
    \/ KeyEvent(RenameKeys, {"ok"}, FALSE)
    \/ RunPending({"ok"}, FALSE)

SpecRename == InitRename /\ [][NextRename]_vars

(***************************************************************************)
(* The filter on a sample tree: directories a, a/b, x and leaves a/b/one,  *)
(* x/two.  The committed filter is an input, drawn from SampleFilters.     *)
(***************************************************************************)
SampleDirs == {<<<<"a">>>>, <<<<"a">>, <<"b">>>>, <<<<"x">>>>}

SampleFiles ==
    {<<<<"a">>, <<"b">>, Gpg(<<"o", "n", "e">>)>>, <<<<"x">>, Gpg(<<"t", "w", "o">>)>>}

SampleFilters == {<<>>, <<"o", "n", "e">>, <<"t", "w", "o">>, <<"b">>}

\* The App of new_with_store with a filter committed, before run() starts.
InitSample ==
    \E f \in SampleFilters :
        /\ fsRoot = TRUE /\ fsDirs = SampleDirs /\ fsFiles = SampleFiles
        /\ cwd = <<>>
        /\ entries = build_store_index(TRUE, SampleDirs, SampleFiles).val
        /\ rows = <<>>
        /\ expanded = {<<>>}
        /\ cursor = 0
        /\ quit = FALSE
        /\ modal = None
        /\ pending = None
        /\ pending_preview = None
        /\ filter = f
        /\ filter_mode = FALSE
        /\ filter_input = <<>>
        /\ status = None
        /\ preview_key = None
        /\ preview_text = ""
        /\ preview_is_error = FALSE
        /\ preview_mode = "Raw"
        /\ pc = "start"
        /\ needs_redraw = FALSE
        /\ calls = <<>>
        /\ faults = 0
        /\ mutations = 0

SpecSample == InitSample /\ [][NextView]_vars

(***************************************************************************)
(* The view over stores with file and directory names that are not UTF-8.  *)
(***************************************************************************)
InitLossy ==
    \/ InitWith({<<nN>>}, {<<nN, Gpg(<<"0xFE">>)>>, <<nN, Gpg(<<"0xFF">>)>>,
                           <<nN, Gpg(nO)>>, <<Gpg(nO)>>})
    \/ InitWith({<< <<"0xFE">> >>, << <<"0xFF">> >>}, {<< <<"0xFE">>, Gpg(nO)>>})

SpecLossy == InitLossy /\ [][NextView]_vars

(***************************************************************************)
(* The index over a family of stores: a .git directory with a directory    *)
(* and a content file inside, a file without the suffix, a file named      *)
(* ".gpg".                                                                 *)
(***************************************************************************)
InitIndex ==
    \E dirs \in SUBSET {<<nN>>, <<GitName>>, <<GitName, nN>>} :
        \E files \in SUBSET {<<Gpg(nO)>>, <<nN, Gpg(nO)>>, <<GitName, Gpg(nO)>>,
                             <<nO>>, <<Gpg(<<>>)>>} :
            WellFormed(dirs, files) /\ InitWith(dirs, files)

SpecIndex == InitIndex /\ [][NextView]_vars

(***************************************************************************)
(* Properties.                                                             *)
(***************************************************************************)
RowEntry(i) == entries[rows[i].idx]

RowPath(i) == relative_to_cwd(App, RowEntry(i).path)

\* C1: with a non-empty filter, every proper ancestor directory (below cwd)
\* of a row's entry has a row of its own, and that row comes earlier.
C1_AncestorsPrecede ==
    filter # <<>> =>
        \A i \in DOMAIN rows :
            \A q \in ProperPrefixes(RowEntry(i).path) :
                (StartsWith(q, cwd) /\ q # cwd) =>
                    \E j \in 1..(i - 1) : RowEntry(j) = Dir(q)

\* A filtered row three levels deep, under a directory the filter does not match.
C1_Witness ==
    /\ filter # <<>>
    /\ \E i \in DOMAIN rows :
          /\ Len(RowPath(i)) = 3
          /\ \E j \in 1..(i - 1) :
                /\ is_dir(RowEntry(j))
                /\ RowEntry(j).path \in ProperPrefixes(RowEntry(i).path)
                /\ ~Contains(display_name(RowEntry(j)), filter)

InCwd(e) == StartsWith(e.path, cwd) /\ e.path # cwd

\* The entries of the index that match the filter by name.
Matching == {idx \in DOMAIN entries :
                InCwd(entries[idx]) /\ Contains(display_name(entries[idx]), filter)}

\* The directories of the index above a matching entry, below cwd.
MatchingAncestors ==
    {idx \in DOMAIN entries :
        /\ is_dir(entries[idx]) /\ InCwd(entries[idx])
        /\ \E m \in Matching : entries[idx].path \in ProperPrefixes(entries[m].path)}

\* C2: with a non-empty filter the rows are exactly the entries whose name
\* contains the filter plus their ancestor directories: every match is shown.
C2_RowsAreMatchesAndAncestors ==
    (filter # <<>> /\ pc # "start") =>
        {rows[i].idx : i \in DOMAIN rows} = Matching \cup MatchingAncestors

\* C3: the cursor is a position of the row list, or 0 when there is none.
C3_CursorValid == (rows = <<>> /\ cursor = 0) \/ cursor < Len(rows)

\* A queued action has failed and the cursor rests on the last of several rows.
C3_Witness ==
    /\ mutations > 0 /\ status # None /\ pc = "draw"
    /\ Len(rows) > 1 /\ cursor = Len(rows) - 1

SameParent(i, j) == Parent(RowPath(i)) = Parent(RowPath(j))

\* C4: among the rows of one parent directory, directories come first, and
\* the directories as well as the leaves ascend by path.
C4_SiblingOrder ==
    \A i \in DOMAIN rows : \A j \in DOMAIN rows :
        (i < j /\ SameParent(i, j)) =>
            /\ ~(RowEntry(i).kind = "Entry" /\ RowEntry(j).kind = "Dir")
            /\ RowEntry(i).kind = RowEntry(j).kind =>
                    PathCmp(RowEntry(i).path, RowEntry(j).path) = "Less"

\* Two sibling directories and a sibling leaf, under a filter.
C4_Witness ==
    /\ filter # <<>>
    /\ \E i \in DOMAIN rows : \E j \in DOMAIN rows : \E k \in DOMAIN rows :
          /\ i < j /\ j < k /\ SameParent(i, j) /\ SameParent(j, k)
          /\ is_dir(RowEntry(i)) /\ is_dir(RowEntry(j)) /\ ~is_dir(RowEntry(k))

CursorOnDir == RowAtCursor(App) # None /\ is_dir(entries[RowAtCursor(App).some.idx])

\* C5: with a directory under the cursor, enter() twice gives back the
\* expanded set, the cursor and the row list.
C5_ToggleTwice ==
    CursorOnDir =>
        /\ enter(enter(App)).expanded = expanded
        /\ enter(enter(App)).cursor = cursor
        /\ enter(enter(App)).rows = rows
        /\ enter(App).expanded # expanded

\* The cursor is on a directory that a toggle has opened, its rows showing,
\* with rows below it that a collapse removes.
C5_Witness ==
    /\ CursorOnDir /\ filter = <<>> /\ cursor > 0
    /\ entry_key(App, RowAtCursor(App).some.idx) \in expanded
    /\ Len(enter(App).rows) < Len(rows)

\* The filter-mode Enter that commits f, then the Esc of the normal mode.
CommitFilter(a, f) ==
    handle_filter_key([a EXCEPT !.filter_mode = TRUE, !.filter_input = f], Key("Enter")).app

ClearFilter(a) == NormalKey(a, Key("Esc"), "ok").app

TypedFilters == {<<c>> : c \in ViewTyped}

\* C6: apply_filter leaves `expanded` alone, and committing a filter and
\* clearing it again gives back the expanded set and the row list.
C6_FilterRoundTrip ==
    (filter = <<>> /\ ~filter_mode /\ pc # "start") =>
        \A f \in TypedFilters :
            /\ apply_filter([App EXCEPT !.filter = f]).expanded = expanded
            /\ CommitFilter(App, f).expanded = expanded
            /\ ClearFilter(CommitFilter(App, f)).expanded = expanded
            /\ ClearFilter(CommitFilter(App, f)).rows = rows

\* A filter was committed and cleared; directories are open and a filter
\* would hide rows.
C6_Witness ==
    /\ filter = <<>> /\ ~filter_mode /\ filter_input # <<>>
    /\ \E k \in expanded : k # <<>>
    /\ Len(rows) > 2
    /\ Len(CommitFilter(App, filter_input).rows) < Len(rows)

\* The last collaborator call of the step, when it is show / show_qr.
ShowStep == calls' # <<>> /\ calls'[Len(calls')].op \in {"show", "show_qr"}

Shown == calls'[Len(calls')]

ShownMode == IF Shown.op = "show_qr" THEN "Qr" ELSE "Raw"

LockFailure(result) ==
    ~result.ok /\ result.err.type = "PassStatusError" /\ result.err.code = LockExitCode

\* C7: a first preview load (allow_unlock = false) that fails with exit code 2
\* queues (key, mode), shows the key with the locked placeholder, returns Ok
\* and leaves the status alone.
C7_LockedPreviewQueued ==
    [][(pc \in {"start", "poll"} /\ ShowStep /\ LockFailure(Shown.result)) =>
          /\ pending_preview' = Some(<<Shown.entry, ShownMode>>)
          /\ preview_key' = Some(Shown.entry)
          /\ preview_text' = LockedText
          /\ preview_mode' = ShownMode
          /\ status' = status
          /\ load_preview(App, Shown.entry, ShownMode, FALSE, Shown.result).ret.ok]_vars

\* The first load has just hit the lock.
C7_Witness ==
    /\ pc = "unlock" /\ Len(calls) = 1 /\ LockFailure(calls[1].result)
    /\ pending_preview = Some(<<calls[1].entry, "Qr">>)
    /\ preview_text = LockedText

\* C8: a pending preview is served in the iteration that finds it: unlock for
\* its (key, mode), then the retry for the same (key, mode) whatever unlock
\* returned, and pending_preview is empty when the retry has returned.
C8_UnlockThenRetry ==
    /\ [](pending_preview # None => pc = "unlock")
    /\ [][pc = "unlock" =>
            /\ Len(calls') = 2
            /\ calls'[1].op = "unlock"
            /\ calls'[1].entry = pending_preview.some[1]
            /\ calls'[1].qr = (pending_preview.some[2] = "Qr")
            /\ calls'[2] = ShowCall(pending_preview.some[1], pending_preview.some[2],
                                    calls'[2].result)
            /\ pending_preview' = None
            /\ pc' = "draw"]_vars

\* The unlock failed, the retry ran and hit the lock again.
C8_Witness ==
    /\ pc = "draw" /\ Len(calls) = 2
    /\ calls[1].op = "unlock" /\ ~calls[1].result.ok
    /\ calls[2].op = "show" /\ LockFailure(calls[2].result)
    /\ pending_preview = None

\* C9: a load that succeeds, first or retry, shows the key in its mode with
\* the returned content, no error flag, and nothing pending.
C9_LoadedPreview ==
    [][(ShowStep /\ Shown.result.ok) =>
          /\ preview_key' = Some(Shown.entry)
          /\ preview_mode' = ShownMode
          /\ preview_text' = Shown.result.val
          /\ ~preview_is_error'
          /\ pending_preview' = None]_vars

\* A QR retry after an unlock has succeeded.
C9_Witness ==
    /\ Len(calls) = 2 /\ calls[2].op = "show_qr" /\ calls[2].result.ok
    /\ preview_mode = "Qr" /\ preview_text = calls[2].result.val
    /\ ~preview_is_error

\* C10: a load that fails otherwise than with the lock, or fails at all on
\* the retry, shows the key in its mode with the error flag and the failure
\* text, queues nothing, and its error becomes the status.
C10_FailedPreview ==
    [][(ShowStep /\ ~Shown.result.ok
            /\ (pc = "unlock" \/ ~LockFailure(Shown.result))) =>
          /\ preview_key' = Some(Shown.entry)
          /\ preview_mode' = ShownMode
          /\ preview_is_error'
          /\ preview_text' = ErrToString(Shown.result.err)
          /\ pending_preview' = None
          /\ status' = Some(ErrToString(Shown.result.err))]_vars

\* The unlock succeeded and the retry still met the lock.
C10_Witness ==
    /\ Len(calls) = 2 /\ calls[1].result.ok /\ LockFailure(calls[2].result)
    /\ preview_is_error /\ preview_text = ErrToString(calls[2].result.err)
    /\ status = Some(preview_text) /\ pending_preview = None

\* C11: in the state a first lock failure leaves behind (the retry queued,
\* the placeholder shown), the error flag of the preview is not set.
C11_LockedIsNoError == pending_preview # None => ~preview_is_error

NormalMode == modal = None /\ ~filter_mode

\* C12 as the specification has it: a cursor move onto a leaf that is not the
\* one displayed in Raw issues a retrieval for it in the same iteration.
C12_MoveRequestsPreview ==
    [][(pc = "poll" /\ cursor' # cursor /\ selected_entry_path(App') # None
            /\ (preview_key # selected_entry_path(App') \/ preview_mode # "Raw")) =>
          (ShowStep /\ Shown.op = "show"
                    /\ Some(Shown.entry) = selected_entry_path(App'))]_vars

\* C12: a key that moves the cursor calls no collaborator and leaves the
\* preview alone; a key retrieves only for the leaf under an unmoved cursor
\* whose (key, mode) is not the one displayed, and Enter on such a leaf does
\* retrieve, with allow_unlock = false (a lock failure is queued).
C12_PreviewOnRequestOnly ==
    [][pc = "poll" =>
          /\ cursor' # cursor =>
                /\ calls' = <<>>
                /\ UNCHANGED <<preview_key, preview_text, preview_is_error,
                               preview_mode, pending_preview>>
          /\ ShowStep =>
                /\ cursor' = cursor
                /\ selected_entry_path(App) = Some(Shown.entry)
                /\ (preview_key # Some(Shown.entry) \/ preview_mode # ShownMode)
          /\ (NormalMode /\ selected_entry_path(App) # None /\ UpdatePreviewCalls(App)) =>
                /\ NormalKey(App, Key("Enter"), "locked").calls
                      = UpdatePreviewLog(App, "locked", "Raw")
                /\ NormalKey(App, Key("Enter"), "locked").app.pending_preview
                      = Some(<<selected_entry_path(App).some, "Raw">>)]_vars

\* The cursor has moved onto a leaf that is not displayed; a redraw is due.
C12_Witness ==
    /\ pc = "draw" /\ needs_redraw /\ calls = <<>> /\ cursor > 0
    /\ selected_entry_path(App) # None
    /\ preview_key # selected_entry_path(App)

PreviewIdle(a) ==
    /\ a.preview_key = None /\ a.preview_text = "" /\ ~a.preview_is_error
    /\ a.preview_mode = "Raw" /\ a.pending_preview = None

NoShowCall(log) == \A i \in DOMAIN log : log[i].op \notin {"show", "show_qr"}

\* C13 as the specification has it: as soon as the cursor moves onto a
\* directory the preview is cleared to Idle.
C13_DirSelectionClears ==
    [][(pc = "poll" /\ cursor' # cursor /\ selected_entry_path(App') = None) =>
          PreviewIdle(App')]_vars

\* C13: update_preview, run at startup and after a queued action, clears the
\* preview to Idle without a retrieval when no leaf is selected; a cursor
\* move onto a directory leaves the preview state as it was.
C13_UpdatePreviewClears ==
    [][/\ (pc \in {"start", "pending"} /\ selected_entry_path(App') = None) =>
              (PreviewIdle(App') /\ NoShowCall(calls'))
       /\ (pc = "poll" /\ cursor' # cursor /\ selected_entry_path(App') = None) =>
              (NoShowCall(calls')
               /\ UNCHANGED <<preview_key, preview_text, preview_is_error,
                              preview_mode, pending_preview>>)]_vars

\* A delete has succeeded and left a directory under the cursor.
C13_Witness ==
    /\ pc = "draw" /\ Len(calls) = 1 /\ calls[1].op = "rm" /\ calls[1].result.ok
    /\ CursorOnDir /\ PreviewIdle(App)

RenameOpen == modal # None /\ modal.some.type = "Input" /\ modal.some.action.tag = "Rename"

\* The key names a directory of the store, or a leaf (its .gpg file).
KeyExists(fs, key) ==
    FsIsDir(fs, Join(key)) \/ FsIsFile(fs, Join(key \o <<".">> \o GpgExt))

\* C14: a rename to a key that exists, as a directory or as a leaf, is
\* rejected by submit_modal (no action, the status set), and mv is never
\* called with a destination that exists.
C14_ExistingTargetRejected ==
    /\ (RenameOpen /\ Trim(modal.some.buffer) # <<>>
            /\ Trim(modal.some.buffer) # modal.some.action.from
            /\ KeyExists(Fs, Trim(modal.some.buffer))) =>
          /\ submit_modal(App, Fs).action = None
          /\ submit_modal(App, Fs).app.status
                = Some(RenameAbortedText(Trim(modal.some.buffer)))
    /\ \A i \in DOMAIN calls :
          calls[i].op = "mv" =>
             (calls[i].result.ok
              \/ calls[i].result.err # OtherError("destination exists: " \o Str(calls[i].to)))

InputOpen == modal # None /\ modal.some.type = "Input"

\* Buffers with and without surrounding whitespace, each with its trimmed text.
TrimCases ==
    LET sp == <<" ">>
        texts == {<<>>, <<"o">>, <<"o", " ", "o">>, <<"n", "/", "o">>}
                 \cup (IF InputOpen /\ modal.some.action.tag = "Rename"
                       THEN {modal.some.action.from} ELSE {})
    IN  {[raw |-> l \o t \o r, trimmed |-> t] :
            l \in {<<>>, sp, sp \o sp}, t \in texts, r \in {<<>>, sp}}

\* The App with `raw` in the buffer of its open Input modal.
WithBuffer(raw) == [App EXCEPT !.modal = Some([modal.some EXCEPT !.buffer = raw])]

\* Enter on the modal changes nothing but the modal, which it closes.
SilentlyClosed(a) ==
    handle_modal_key(a, Fs, Key("Enter")).app = [a EXCEPT !.modal = None]

\* C15: submitting an Add or Rename input that is empty once trimmed, or a
\* Rename whose trimmed target is its source, only closes the modal (no
\* action, no call, status unchanged); an Add with other text queues
\* PendingAction::Add with exactly the trimmed text.
C15_EmptyOrUnchangedInput ==
    [][(pc = "poll" /\ InputOpen) =>
          /\ \A c \in TrimCases :
                IF c.trimmed = <<>>
                   \/ (modal.some.action.tag = "Rename"
                       /\ c.trimmed = modal.some.action.from)
                THEN /\ submit_modal(WithBuffer(c.raw), Fs).action = None
                     /\ SilentlyClosed(WithBuffer(c.raw))
                ELSE modal.some.action.tag = "AddHere" =>
                        /\ submit_modal(WithBuffer(c.raw), Fs).action
                              = Some(PendingAdd(c.trimmed))
                        /\ handle_modal_key(WithBuffer(c.raw), Fs, Key("Enter")).app
                              = [App EXCEPT !.modal = None,
                                            !.pending = Some(PendingAdd(c.trimmed))]
          /\ modal' = None =>
                /\ calls' = <<>>
                /\ (modal.some.buffer = <<>>
                    \/ (modal.some.action.tag = "Rename"
                        /\ modal.some.buffer = modal.some.action.from)) =>
                      (pending' = None /\ status' = status
                       /\ UNCHANGED <<entries, rows, cursor, fsVars>>)
                /\ (modal.some.action.tag = "AddHere" /\ pending' # None) =>
                      pending' = Some(PendingAdd(modal.some.buffer))]_vars

\* An Add has been submitted with text and is queued.
C15_Witness ==
    /\ pc = "pending" /\ modal = None /\ calls = <<>>
    /\ pending = Some(PendingAdd(<<"o">>))

ConfirmOpen == modal # None /\ modal.some.type = "Confirm"

RmCalled(log) == \E i \in DOMAIN log : log[i].op = "rm"

\* C16: Delete is queued only by closing the Confirm modal with its
\* affirmative choice selected, and rm is called only for a queued Delete;
\* Enter on Cancel and Esc queue nothing and call nothing.
C16_DeleteNeedsConfirmation ==
    [][/\ (pending' = Some(PendingDelete) /\ pending # Some(PendingDelete)) =>
              (pc = "poll" /\ ConfirmOpen /\ modal.some.selected_ok /\ modal' = None
               /\ modal.some.action = DeleteSelected)
       /\ RmCalled(calls') => (pc = "pending" /\ pending = Some(PendingDelete))
       /\ (pc = "poll" /\ ConfirmOpen) =>
              /\ handle_key(App, Fs, Key("Esc"), "ok")
                    = [app |-> [App EXCEPT !.modal = None], changed |-> TRUE,
                       calls |-> <<>>]
              /\ ~modal.some.selected_ok =>
                    handle_key(App, Fs, Key("Enter"), "ok")
                       = [app |-> [App EXCEPT !.modal = None], changed |-> TRUE,
                          calls |-> <<>>]
              /\ (~modal.some.selected_ok /\ modal' = None) =>
                    (pending' = None /\ calls' = <<>>)]_vars

\* The confirmed Delete has run: rm was called.
C16_Witness == pc # "pending" /\ RmCalled(calls) /\ pending = None /\ modal = None

\* C17: an open modal and a queued action never coexist, no action is
\* queued when an event is read, and Enter and Esc both close an open modal.
C17_ModalOrPending ==
    /\ ~(modal # None /\ pending # None)
    /\ pc = "poll" => pending = None
    /\ pending # None => pc = "pending"
    /\ modal # None =>
          /\ handle_key(App, Fs, Key("Enter"), "ok").app.modal = None
          /\ handle_key(App, Fs, Key("Esc"), "ok").app.modal = None

\* A submitted rename is queued, its modal closed.
C17_Witness ==
    /\ pc = "pending" /\ modal = None
    /\ pending # None /\ pending.some.tag = "Rename"

\* C18: Esc on an open modal closes it and does nothing else: nothing is
\* queued, no collaborator is called, every other field of the App stays.
C18_EscClosesModal ==
    (pc = "poll" /\ modal # None) =>
        /\ ~KeyCallsBackend(App, Key("Esc"))
        /\ \A o \in Outcomes :
              handle_key(App, Fs, Key("Esc"), o)
                 = [app |-> [App EXCEPT !.modal = None], changed |-> TRUE,
                    calls |-> <<>>]
        /\ handle_key(App, Fs, Key("Esc"), "ok").app.pending = None

\* An input modal with typed text is open over a view with a status and a
\* displayed preview.
C18_Witness ==
    /\ pc = "poll" /\ InputOpen /\ modal.some.buffer # <<>>
    /\ status # None /\ preview_key # None /\ cursor > 0

\* The rows are the projection of the index the App holds.
RowsProjected(a) == a.rows = apply_filter(a).rows

\* update_preview has run on the rows: nothing shown without a selected
\* leaf, the selected leaf's key shown in Raw otherwise.
PreviewUpdated(a) ==
    IF selected_entry_path(a) = None THEN PreviewIdle(a)
    ELSE a.preview_key = selected_entry_path(a) /\ a.preview_mode = "Raw"

\* C19 as the specification has it: the iteration that runs a queued action
\* leaves an index built from the store as the action left it, and its rows.
C19_IndexRebuiltAlways ==
    [][pc = "pending" =>
          /\ build_store_index(fsRoot', fsDirs', fsFiles').ok
          /\ entries' = build_store_index(fsRoot', fsDirs', fsFiles').val
          /\ RowsProjected(App')]_vars

\* C19: the iteration that runs a queued action, failed or not, goes on to
\* refresh and update_preview before the redraw: while the store root
\* exists the index is rebuilt from the store as the action left it and the
\* rows are its projection; without the root the rebuild fails, index and
\* rows stay and the status holds an error.
C19_RefreshThenPreview ==
    [][pc = "pending" =>
          /\ pc' \in {"unlock", "draw"} /\ needs_redraw' /\ pending' = None
          /\ IF fsRoot'
             THEN /\ entries' = build_store_index(TRUE, fsDirs', fsFiles').val
                  /\ RowsProjected(App')
             ELSE entries' = entries /\ rows' = rows /\ status' # None
          /\ PreviewUpdated(App')]_vars

\* A rename has run and the redraw is due over the rebuilt index.
C19_Witness ==
    /\ pc = "draw" /\ needs_redraw /\ calls # <<>>
    /\ calls[1].op = "mv" /\ calls[1].result.ok
    /\ entries = build_store_index(TRUE, fsDirs, fsFiles).val
    /\ \E i \in DOMAIN rows : RowEntry(i).path = <<calls[1].to>>

\* C20: the iteration that runs a queued action retrieves the content of
\* the leaf selected afterwards, so what is shown was fetched after it.
C20_PreviewRefetched ==
    [][(pc = "pending" /\ selected_entry_path(App') # None) =>
          \E i \in DOMAIN calls' :
              /\ calls'[i].op = "show"
              /\ Some(calls'[i].entry) = selected_entry_path(App')]_vars

\* The failures of one step of the loop.  `log` holds its collaborator
\* calls, `rebuildFailed` says that its index rebuild failed, `retry` that
\* its retrieval is the one after the unlock.
IsShow(c) == c.op \in {"show", "show_qr"}

AbsorbedLock(log, retry) ==
    /\ ~retry /\ log # <<>> /\ IsShow(log[Len(log)])
    /\ LockFailure(log[Len(log)].result)

\* The message the step leaves in the status: that of its last failure
\* other than an absorbed lock failure (retrieval, else rebuild, else the
\* action, the unlock or the yank), None when it has no such failure.
RecordedFailure(log, rebuildFailed, retry) ==
    IF log # <<>> /\ IsShow(log[Len(log)]) /\ ~log[Len(log)].result.ok
       /\ ~AbsorbedLock(log, retry)
    THEN Some(ErrToString(log[Len(log)].result.err))
    ELSE IF rebuildFailed THEN Some("Password store not found")
    ELSE IF log # <<>> /\ ~IsShow(log[1]) /\ ~log[1].result.ok
    THEN Some(ErrToString(log[1].result.err))
    ELSE None

RebuildFailed == pc = "pending" /\ ~fsRoot'

StepFailed == RebuildFailed \/ \E i \in DOMAIN calls' : ~calls'[i].result.ok

StillUsable ==
    /\ pc' # "done" /\ quit' = quit
    /\ \A i \in DOMAIN rows' : rows'[i].idx \in DOMAIN entries'
    /\ (rows' = <<>> /\ cursor' = 0) \/ cursor' < Len(rows')

C22_SampleRows ==
    (pc # "start" /\ cwd = <<>> /\ filter = <<"o", "n", "e">>) =>
        /\ [i \in DOMAIN rows |-> RowEntry(i).path]
             = << <<<<"a">>>>, <<<<"a">>, <<"b">>>>, <<<<"a">>, <<"b">>, <<"o", "n", "e">>>> >>
        /\ [i \in DOMAIN rows |-> rows[i].branches[Len(rows[i].branches)]]
             = <<FALSE, TRUE, TRUE>>

\* C23: apply_filter is idempotent.  Whatever the cursor it starts from, a
\* second call right after the first leaves the rows (entries, order,
\* branch flags) and the cursor as the first call made them.
C23_ApplyFilterIdempotent ==
    \A c \in 0..Len(entries) :
        \E once \in {apply_filter([App EXCEPT !.cursor = c])} :
            /\ apply_filter(once).rows = once.rows
            /\ apply_filter(once).cursor = once.cursor

\* apply_filter has run with a filter that keeps several rows, the cursor on
\* the last of them; a further call changes nothing.
C23_Witness ==
    /\ pc = "draw" /\ filter # <<>> /\ Len(rows) >= 3 /\ cursor = Len(rows) - 1
    /\ apply_filter(App).rows = rows /\ apply_filter(App).cursor = cursor

\* C24: the key of a row is its path's segments joined by "/": splitting
\* the key at "/" gives the segments back, and rows of different paths
\* have different keys.
C24_KeyRoundTrip ==
    pc # "start" =>
        \A i \in DOMAIN rows :
            /\ Components(entry_key(App, rows[i].idx), <<>>) = RowPath(i)
            /\ \A j \in DOMAIN rows :
                  RowPath(i) # RowPath(j)
                      => entry_key(App, rows[i].idx) # entry_key(App, rows[j].idx)

\* The entries of the index, as a set.
IndexSet == {entries[i] : i \in DOMAIN entries}

\* The name ends in ".gpg".
EndsInGpg(name) ==
    Len(name) >= 4 /\ SubSeq(name, Len(name) - 3, Len(name)) = <<".", "g", "p", "g">>

\* The path of a content file, the suffix cut from its name.
CutGpg(f) == [f EXCEPT ![Len(f)] = SubSeq(f[Len(f)], 1, Len(f[Len(f)]) - 4)]

\* C25 (as stated): the index is the root, a directory entry for every
\* directory, and a leaf for every file whose name ends in ".gpg", the
\* suffix cut; nothing else, and nothing twice.
C25_IndexOfEveryDirAndGpg ==
    /\ IndexSet = {Dir(<<>>)} \cup {Dir(d) : d \in fsDirs}
                  \cup {Leaf(CutGpg(f)) : f \in {x \in fsFiles : EndsInGpg(x[Len(x)])}}
    /\ Len(entries) = Cardinality(IndexSet)

\* C25 (amended): the index is the root (also for an empty store), a
\* directory entry for every directory whose own name is not .git, and a
\* leaf for every file whose name is a non-empty stem followed by ".gpg",
\* the suffix cut; nothing else, and nothing twice.
C25_IndexExactly ==
    /\ IndexSet = {Dir(<<>>)}
                  \cup {Dir(d) : d \in {x \in fsDirs : x[Len(x)] # GitName}}
                  \cup {Leaf(CutGpg(f)) :
                          f \in {x \in fsFiles : /\ EndsInGpg(x[Len(x)])
                                                 /\ Len(x[Len(x)]) > 4}}
    /\ Len(entries) = Cardinality(IndexSet)

\* The index of a store with a .git directory, a file without the suffix, a
\* file named ".gpg" and a content file in a directory.
C25_Witness ==
    /\ pc = "draw"
    /\ <<GitName>> \in fsDirs /\ <<nO>> \in fsFiles /\ <<Gpg(<<>>)>> \in fsFiles
    /\ <<nN, Gpg(nO)>> \in fsFiles
    /\ Leaf(<<nN, nO>>) \in IndexSet /\ Dir(<<nN>>) \in IndexSet

\* C26: no entry of the index is a directory named .git or lies beneath
\* one.
C26_NothingOfGit ==
    \A i \in DOMAIN entries :
        \A k \in DOMAIN entries[i].path : entries[i].path[k] # GitName

\* Keys handed to mv.
MvKeys == {<<"n">>, <<"o">>, <<"n", "/", "o">>, <<"o", "/", "n">>}

\* The path mv moves to: the directory `to` when `from` names a directory,
\* else the file to.gpg.
DstPath(fs, from, to) ==
    IF Components(from, <<>>) \in fs.dirs THEN Components(to, <<>>)
    ELSE Components(to \o <<".", "g", "p", "g">>, <<>>)

\* C27 (as stated): mv fails when the destination key exists, as a
\* directory or as a leaf; after a success every directory above the
\* destination exists.
C27_MvFailsOnExistingKey ==
    \A from \in MvKeys : \A to \in MvKeys :
        \E r \in {mv(Fs, from, to)} :
            /\ KeyExists(Fs, to) => ~r.ret.ok
            /\ r.ret.ok => ProperPrefixes(DstPath(Fs, from, to)) \subseteq r.fs.dirs

\* C27 (amended): mv fails when the path it moves to exists (the directory
\* `to` for a directory source, the file to.gpg for a leaf source); after a
\* success the destination exists and so does every directory above it.
C27_MvFailsOnExistingPath ==
    \A from \in MvKeys : \A to \in MvKeys :
        \E r \in {mv(Fs, from, to)} :
            /\ DstPath(Fs, from, to) \in fsDirs \cup fsFiles => ~r.ret.ok
            /\ r.ret.ok =>
                  /\ ProperPrefixes(DstPath(Fs, from, to)) \subseteq r.fs.dirs
                  /\ DstPath(Fs, from, to) \in r.fs.dirs \cup r.fs.files

\* A rename has run; on the store it left, one mv is refused because its
\* destination path exists and another succeeds by creating a directory.
C27_Witness ==
    /\ pc = "draw" /\ calls # <<>> /\ calls[1].op = "mv" /\ calls[1].result.ok
    /\ \E from \in MvKeys : \E to \in MvKeys :
          /\ resolve_source(Fs, from).ok
          /\ DstPath(Fs, from, to) \in fsDirs \cup fsFiles
          /\ ~mv(Fs, from, to).ret.ok
    /\ \E from \in MvKeys : \E to \in MvKeys :
          /\ mv(Fs, from, to).ret.ok
          /\ ~(ProperPrefixes(DstPath(Fs, from, to)) \subseteq fsDirs)

\* C28: with an empty filter, an entry strictly inside cwd has a row iff
\* every proper ancestor of it below cwd is a directory of the index whose
\* key is in `expanded`.
C28_ShownIffAncestorsExpanded ==
    (pc # "start" /\ filter = <<>>) =>
        \A i \in DOMAIN entries :
            (StartsWith(entries[i].path, cwd) /\ entries[i].path # cwd) =>
                ((\E k \in DOMAIN rows : rows[k].idx = i)
                 <=> \A anc \in ProperPrefixes(relative_to_cwd(App, entries[i].path)) :
                        /\ Dir(cwd \o anc) \in IndexSet
                        /\ path_to_store_key(anc) \in expanded)

\* A collapsed directory whose sub-directory is still marked expanded: the
\* sub-directory and what it holds have no row, the top-level entries do.
C28_Witness ==
    /\ pc = "draw" /\ filter = <<>>
    /\ <<"n">> \notin expanded /\ <<"n", "/", "o">> \in expanded
    /\ Leaf(<<nN, nO, nN>>) \in IndexSet
    /\ \A k \in DOMAIN rows : Len(RowEntry(k).path) = 1
    /\ Len(rows) >= 2

\* C29: a row has one branch flag per segment of its path below cwd; the
\* last flag says that no later row has the same parent directory; the
\* flags before it are the flags of the row of the parent directory.
C29_BranchFlags ==
    pc # "start" =>
        \A i \in DOMAIN rows :
            /\ Len(rows[i].branches) = Len(RowPath(i))
            /\ Len(RowPath(i)) >= 1
            /\ rows[i].branches[Len(rows[i].branches)]
                  <=> ~\E j \in DOMAIN rows :
                          j > i /\ Parent(RowPath(j)) = Parent(RowPath(i))
            /\ Len(RowPath(i)) > 1 =>
                  \E k \in DOMAIN rows :
                      /\ is_dir(RowEntry(k))
                      /\ RowPath(k) = Parent(RowPath(i)).some
                      /\ rows[k].branches
                           = SubSeq(rows[i].branches, 1, Len(rows[i].branches) - 1)

\* Rows three levels deep, with a row that is not the last of its siblings
\* and whose flags its descendants inherit.
C29_Witness ==
    /\ pc = "draw"
    /\ \E i \in DOMAIN rows : rows[i].branches = <<FALSE, FALSE, TRUE>>
    /\ \E i \in DOMAIN rows : rows[i].branches = <<FALSE, TRUE>>

\* The requested (key, mode) is not the displayed one.
Differs(a, mode) ==
    /\ selected_entry_path(a) # None
    /\ <<a.preview_key, a.preview_mode>> # <<selected_entry_path(a), mode>>

\* update_preview (Raw) or update_preview_qr (Qr), the retrieval ending as o.
UpdateFor(a, mode, o) ==
    IF mode = "Raw" THEN update_preview(a, o) ELSE update_preview_qr(a, o)

\* C30: update_preview and update_preview_qr contact the retrieval
\* collaborator iff a leaf is selected and the requested (key, mode) is not
\* the displayed one.  Then the preview shows what the retrieval gave for
\* that key and mode; otherwise how a retrieval would end has no influence,
\* and with a leaf selected the App stays as it is (also when it displays an
\* error for that key).  A key that makes the loop retrieve is pressed on a
\* leaf whose (key, mode) is not displayed.
C30_RetrieveIffDiffers ==
    [][/\ \A mode \in {"Raw", "Qr"} : \A o \in Outcomes :
             \E r \in {UpdateFor(App, mode, o)} :
                IF Differs(App, mode)
                THEN /\ r.preview_key = selected_entry_path(App)
                     /\ r.preview_mode = mode
                     /\ r.preview_is_error = (o # "ok")
                     /\ o = "ok" =>
                          r.preview_text
                             = BackendShow(o, selected_entry_path(App).some, mode).val
                ELSE /\ r = UpdateFor(App, mode, "ok")
                     /\ selected_entry_path(App) # None => r = App
       /\ (pc = "poll" /\ ShowStep) =>
             /\ Differs(App, ShownMode)
             /\ Some(Shown.entry) = selected_entry_path(App)]_vars

\* The selected leaf is displayed with an error that is not a lock, and the
\* latest step - a key pressed on it - made no call and left it so.
C30_Witness ==
    /\ pc = "draw" /\ needs_redraw /\ calls = <<>>
    /\ selected_entry_path(App) # None
    /\ preview_key = selected_entry_path(App)
    /\ preview_is_error /\ pending_preview = None
    /\ status # None

\* The calls of a step that run a queued action.
ActionCalls(log) == {i \in DOMAIN log : log[i].op \in {"edit", "add", "rm", "mv"}}

\* The call that runs `action`, when the cursor row (if any) is `row`.
RunsAction(c, action, row) ==
    IF action.tag = "Edit" THEN c.op = "edit" /\ c.entry = action.rel
    ELSE IF action.tag = "Add" THEN c.op = "add" /\ c.entry = action.path
    ELSE IF action.tag = "Rename"
    THEN c.op = "mv" /\ c.from = action.from /\ c.to = action.to
    ELSE c.op = "rm" /\ row # None

\* C31: a queued action is run once, in the iteration that queued it.  An
\* action is queued only by a key event, into an empty queue; the loop is
\* then at its pending block, whose step takes the action, makes the one
\* call that runs it (none for a Delete without a row) before any unlock
\* and leaves the full screen for Edit and Add only; nothing else empties or
\* changes the queue.
C31_QueuedActionRunsOnce ==
    [][/\ pending # None => pc = "pending"
       /\ pending' # None => (pc = "poll" /\ pending = None /\ pc' = "pending")
       /\ pc = "pending" =>
             /\ pending # None /\ pending' = None
             /\ Cardinality(ActionCalls(calls')) <= 1
             /\ ActionCalls(calls') \subseteq {1}
             /\ (ActionCalls(calls') = {})
                   <=> (pending.some.tag = "Delete" /\ RowAtCursor(App) = None)
             /\ \A i \in ActionCalls(calls') :
                   /\ RunsAction(calls'[i], pending.some, RowAtCursor(App))
                   /\ calls'[i].suspended <=> pending.some.tag \in {"Edit", "Add"}
             /\ \A i \in DOMAIN calls' : calls'[i].op # "unlock"]_vars

\* A queued Edit has been run, outside the full screen, in its iteration.
C31_Witness ==
    /\ pc = "draw" /\ pending = None /\ calls # <<>>
    /\ calls[1].op = "edit" /\ calls[1].suspended
    /\ mutations > 0

\* The modal `after` is the modal `before`, but for its buffer or selection.
SameModalEdited(before, after) ==
    /\ after.type = before.type
    /\ IF before.type = "Input"
       THEN after = [before EXCEPT !.buffer = after.buffer]
       ELSE after = [before EXCEPT !.selected_ok = after.selected_ok]

\* C32: while a modal is open, a key event belongs to the modal.  The step
\* that handles an event with a modal open leaves the cursor, the rows, the
\* entries, expanded, filter, filter_mode, the filter input, quit, the
\* preview and its pending request as they are and reaches no collaborator;
\* the modal is closed or keeps its kind, title and action; only its buffer
\* or selection, the queued action and the status may differ.
C32_ModalTakesEveryKey ==
    [][(pc = "poll" /\ modal # None) =>
          /\ UNCHANGED <<cwd, entries, rows, expanded, cursor, quit, filter,
                         filter_mode, filter_input, pending_preview, preview_key,
                         preview_text, preview_is_error, preview_mode>>
          /\ calls' = <<>>
          /\ modal' # None => SameModalEdited(modal.some, modal'.some)
          /\ pending' # None => modal' = None]_vars

\* A key was handled by an open confirmation: its selection is no longer the
\* one it opened with, and the loop goes on.
C32_Witness ==
    /\ pc = "draw" /\ modal # None /\ modal.some.type = "Confirm"
    /\ ~modal.some.selected_ok /\ ~quit /\ pending = None

\* C33 (as stated): in every state every row's idx is a position of the
\* entries list, no entry has two rows, and the entry whose path is cwd has
\* none.
C33_RowsIndexEntriesOnce ==
    /\ \A i \in DOMAIN rows : rows[i].idx \in DOMAIN entries
    /\ \A i \in DOMAIN rows : \A j \in DOMAIN rows :
          rows[i].idx = rows[j].idx => i = j
    /\ \A i \in DOMAIN rows :
          rows[i].idx \in DOMAIN entries => entries[rows[i].idx].path # cwd

\* The remove calls of a step.
RmCalls(log) == {i \in DOMAIN log : log[i].op = "rm"}

\* Is the entry on disk: its directory, or its content file?
OnDisk(e, dirs, files) ==
    IF is_dir(e) THEN e.path \in dirs
    ELSE SubSeq(e.path, 1, Len(e.path) - 1) \o <<Gpg(e.path[Len(e.path)])>> \in files

\* The call of a confirmed Delete.  While the confirmation is open (the step
\* that submits it included) the entries, the rows and the cursor stay as
\* they are; the step that runs a queued Delete makes no remove call when
\* there is no row, and else exactly one, for the store key of the entry of
\* the cursor row, recursive iff that entry is a directory, with -r passed
\* iff recursive and -f always.
ConfirmedDeleteCall ==
    /\ (modal # None /\ modal.some.type = "Confirm")
          => UNCHANGED <<entries, rows, cursor>>
    /\ (pc = "pending" /\ pending = Some(PendingDelete)) =>
          IF rows = <<>> THEN RmCalls(calls') = {}
          ELSE LET entry == entries[rows[cursor + 1].idx]
               IN  /\ Cardinality(RmCalls(calls')) = 1
                   /\ \A i \in RmCalls(calls') :
                         /\ calls'[i].target = store_key(entry)
                         /\ calls'[i].recursive = is_dir(entry)
                         /\ calls'[i].flags =
                               IF is_dir(entry) THEN <<"-r", "-f">> ELSE <<"-f">>

\* The removal of a confirmed Delete: when the remove call of the step that
\* runs it succeeds, the entry of the cursor row is no longer on disk.
ConfirmedDeleteRemoves ==
    (pc = "pending" /\ pending = Some(PendingDelete) /\ rows # <<>>) =>
        \A i \in RmCalls(calls') :
            calls'[i].result.ok =>
                ~OnDisk(entries[rows[cursor + 1].idx], fsDirs', fsFiles')

DeleteCallsRemoveOnce == [][ConfirmedDeleteCall]_vars

\* A confirmed Delete of a directory row has been run and its remove call
\* has succeeded.
DirectoryDeleteRan ==
    /\ pc = "draw" /\ calls # <<>> /\ calls[1].op = "rm"
    /\ calls[1].recursive /\ calls[1].result.ok

====
